---- MODULE Spec2Model ----
(***************************************************************************)
(* State-machine model of VulkanEngine (src/src/vulkan_engine.cpp): the    *)
(* bring-up sequence of Init, the frame loop of Run with DrawFrame and     *)
(* RecreateSwapChain, and the tear-down sequence of Destroy, together with *)
(* the GPU queue that executes submitted command buffers and the window    *)
(* system that posts events.                                               *)
(***************************************************************************)
EXTENDS Integers, Sequences, FiniteSets, TLC

\* ------------------------------------------------------------------------
\* Program constants and bounds of the model
\* ------------------------------------------------------------------------

\* const int kMaxFramesInFlight = 2;
kMaxFramesInFlight == 2

\* Largest number of images a swapchain is created with.
MaxImages == 2

\* Largest number of events waiting in the SDL event queue.
MaxEvents == 1

\* Number of swapchain recreations the window system and the driver may
\* provoke (RESIZED events, OUT_OF_DATE / SUBOPTIMAL results).
MaxRecreations == 2

\* Largest number of statements of Init that fail in one run.
MaxInitFailures == 1

Frames == 0 .. (kMaxFramesInFlight - 1)

\* const std::vector<Vertex> vertices: position (in tenths) and colour.
vertices ==
  << [pos |-> << -5, -5 >>, color |-> << 1, 0, 0 >>],
     [pos |-> << 5, -5 >>,  color |-> << 0, 1, 0 >>],
     [pos |-> << 5, 5 >>,   color |-> << 0, 0, 1 >>],
     [pos |-> << -5, 5 >>,  color |-> << 1, 1, 1 >> ] >>

\* const std::vector<uint32_t> indices
indices == << 0, 1, 2, 2, 3, 0 >>

EventTypes == {"QUIT", "RESIZED", "OTHER"}

\* The two values SDL_GetWindowSize reports per dimension: 0 (minimized)
\* and a non-zero size.
WindowSizes == {0, 1}

Range(s) == {s[i] : i \in DOMAIN s}

VARIABLES
  pc,                          \* position of the main thread
  init_i,                      \* index of the next statement of Init
  destroy_i,                   \* index of the next statement of Destroy
  rs_ret,                      \* where RecreateSwapChain returns to
  running_,                    \* VulkanEngine::running_
  current_frame_,              \* VulkanEngine::current_frame_
  live,                        \* objects created and not yet destroyed
  swap_chain_,                 \* handle held in swap_chain_
  swap_chain_images_,          \* swap_chain_images_.size()
  swap_chain_image_views_,     \* handles held in swap_chain_image_views_
  swap_chain_framebuffers_,    \* handles held in swap_chain_framebuffers_
  live_swapchains,             \* swapchain handles created, not destroyed
  live_image_views,            \* image view handles created, not destroyed
  live_framebuffers,           \* framebuffer handles created, not destroyed
  handles,                     \* number of handles the driver has handed out
  in_flight_fences_,           \* state of in_flight_fences_[f]
  image_available_semaphores_, \* state of image_available_semaphores_[f]
  command_buffers_,            \* state of command_buffers_[f]
  gpu_queue,                   \* submissions not yet completed (frame slots)
  image_index,                 \* local image_index of DrawFrame
  events,                      \* SDL event queue
  width, height,               \* locals of RecreateSwapChain
  budget,                      \* recreations still allowed by the bound
  resize_pending,              \* a RESIZED event was polled, not yet served
  df,                          \* what the current / last DrawFrame call did
  destroyed_twice,             \* an object was destroyed that was not live
  init_failed,                 \* statements of Init that failed
  recorded_commands,           \* commands recorded in command_buffers_[f]
  imgui_frame,                 \* "open": ImGui::NewFrame called, not rendered
  frames_after_quit,           \* DrawFrame calls since QUIT was polled
  surface,                     \* formats and extent the surface reports
  swap_chain_image_format_,    \* VulkanEngine::swap_chain_image_format_
  swap_chain_extent_,          \* VulkanEngine::swap_chain_extent_
  render_pass_format,          \* color_attachment.format of render_pass_
  extent_users,                \* extents given to framebuffers and commands
  call                         \* one call of a helper: arguments and result

vars == << pc, init_i, destroy_i, rs_ret, running_, current_frame_, live,
           swap_chain_, swap_chain_images_, swap_chain_image_views_,
           swap_chain_framebuffers_, live_swapchains, live_image_views,
           live_framebuffers, handles, in_flight_fences_,
           image_available_semaphores_, command_buffers_, gpu_queue,
           image_index, events, width, height, budget,
           resize_pending, df, destroyed_twice, init_failed,
           recorded_commands, imgui_frame, frames_after_quit, surface,
           swap_chain_image_format_, swap_chain_extent_, render_pass_format,
           extent_users, call >>

\* Format and extent state of the swapchain and of what is built on it.
formatVars == << surface, swap_chain_image_format_, swap_chain_extent_,
                render_pass_format, extent_users >>

\* What the frame loop never touches.
helperVars == << formatVars, call >>

swapVars == << swap_chain_, swap_chain_images_, swap_chain_image_views_,
               swap_chain_framebuffers_, live_swapchains, live_image_views,
               live_framebuffers, handles >>

syncVars == << in_flight_fences_, image_available_semaphores_,
               command_buffers_, gpu_queue >>

envVars == << events, budget >>

ctlVars == << init_i, destroy_i, rs_ret, running_, current_frame_ >>

rsLocals == << width, height >>

\* Record of one DrawFrame call, cleared when the fence wait returns;
\* acquired_from is the swapchain the local image_index was acquired from
\* and goes out of scope with it when DrawFrame returns.
DfNone == [frame |-> 0, acquire |-> "none",
           present |-> "none", reset_fence |-> FALSE, recorded |-> FALSE,
           submitted |-> "no", presented |-> FALSE, recreated |-> "no",
           ubo |-> -1, acquired_from |-> 0]


\* No surface has been queried, nothing has been given an extent, no
\* helper has been called.
NoSurface == [formats |-> << >>, extent |-> 0]

NoExtentUsers == [framebuffers |-> 0, render_area |-> 0, viewport |-> 0,
                  scissor |-> 0]

NoCall == [fn |-> "none", args |-> << >>, done |-> FALSE, ret |-> << >>]

\* ------------------------------------------------------------------------
\* The statements of Init and of Destroy, in program order
\* ------------------------------------------------------------------------

\* Init with CreateGraphicsPipeline called before CreateDescriptorSetLayout.
InitOrder_PipelineFirst ==
  << "InitSDL", "InitVulkanInstance", "SetupDebugMessenger", "CreateSurface",
     "PickPhysicalDevice", "CreateLogicalDevice", "CreateSwapChain",
     "CreateImageViews", "CreateRenderPass", "CreateGraphicsPipeline",
     "CreateDescriptorSetLayout", "CreateFramebuffers", "CreateCommandPool",
     "CreateVertexBuffer", "CreateIndexBuffer", "CreateUniformBuffers",
     "CreateDescriptorPool", "CreateDescriptorSets", "CreateCommandBuffer",
     "CreateSyncObjects", "InitImGui" >>

\* VulkanEngine::Init, lines 124-144.
InitOrder ==
  << "InitSDL", "InitVulkanInstance", "SetupDebugMessenger", "CreateSurface",
     "PickPhysicalDevice", "CreateLogicalDevice", "CreateSwapChain",
     "CreateImageViews", "CreateRenderPass", "CreateDescriptorSetLayout",
     "CreateGraphicsPipeline", "CreateFramebuffers", "CreateCommandPool",
     "CreateVertexBuffer", "CreateIndexBuffer", "CreateUniformBuffers",
     "CreateDescriptorPool", "CreateDescriptorSets", "CreateCommandBuffer",
     "CreateSyncObjects", "InitImGui" >>

\* The objects each step of Init leaves behind when it succeeds.
Produces(step) ==
  CASE step = "InitSDL"                   -> {"window"}
    [] step = "InitVulkanInstance"        -> {"instance"}
    [] step = "SetupDebugMessenger"       -> {"debug_messenger"}
    [] step = "CreateSurface"             -> {"surface"}
    [] step = "PickPhysicalDevice"        -> {"physical_device"}
    [] step = "CreateLogicalDevice"       -> {"device"}
    [] step = "CreateSwapChain"           -> {"swapchain"}
    [] step = "CreateImageViews"          -> {"image_views"}
    [] step = "CreateRenderPass"          -> {"render_pass"}
    [] step = "CreateDescriptorSetLayout" -> {"descriptor_set_layout"}
    [] step = "CreateGraphicsPipeline"    -> {"pipeline_layout",
                                              "graphics_pipeline"}
    [] step = "CreateFramebuffers"        -> {"framebuffers"}
    [] step = "CreateCommandPool"         -> {"command_pool"}
    [] step = "CreateVertexBuffer"        -> {"vertex_buffer",
                                              "vertex_buffer_memory"}
    [] step = "CreateIndexBuffer"         -> {"index_buffer",
                                              "index_buffer_memory"}
    [] step = "CreateUniformBuffers"      -> {"uniform_buffers",
                                              "uniform_buffers_memory"}
    [] step = "CreateDescriptorPool"      -> {"descriptor_pool"}
    [] step = "CreateDescriptorSets"      -> {"descriptor_sets"}
    [] step = "CreateCommandBuffer"       -> {"command_buffers"}
    [] step = "CreateSyncObjects"         -> {"semaphores", "fences"}
    [] step = "InitImGui"                 -> {"imgui_descriptor_pool",
                                              "imgui_context"}

\* The objects each step of Init hands to SDL or to the GPU API.
Consumes(step) ==
  CASE step = "InitSDL"                   -> {}
    [] step = "InitVulkanInstance"        -> {}
    [] step = "SetupDebugMessenger"       -> {"instance"}
    [] step = "CreateSurface"             -> {"window", "instance"}
    [] step = "PickPhysicalDevice"        -> {"instance", "surface"}
    [] step = "CreateLogicalDevice"       -> {"physical_device", "surface"}
    [] step = "CreateSwapChain"           -> {"physical_device", "surface",
                                              "device", "window"}
    [] step = "CreateImageViews"          -> {"device", "swapchain"}
    [] step = "CreateRenderPass"          -> {"device", "swapchain"}
    [] step = "CreateDescriptorSetLayout" -> {"device"}
    [] step = "CreateGraphicsPipeline"    -> {"device", "render_pass",
                                              "descriptor_set_layout"}
    [] step = "CreateFramebuffers"        -> {"device", "image_views",
                                              "render_pass", "swapchain"}
    [] step = "CreateCommandPool"         -> {"physical_device", "surface",
                                              "device"}
    [] step = "CreateVertexBuffer"        -> {"device", "physical_device",
                                              "command_pool"}
    [] step = "CreateIndexBuffer"         -> {"device", "physical_device",
                                              "command_pool"}
    [] step = "CreateUniformBuffers"      -> {"device", "physical_device"}
    [] step = "CreateDescriptorPool"      -> {"device"}
    [] step = "CreateDescriptorSets"      -> {"device", "descriptor_pool",
                                              "descriptor_set_layout",
                                              "uniform_buffers"}
    [] step = "CreateCommandBuffer"       -> {"device", "command_pool"}
    [] step = "CreateSyncObjects"         -> {"device"}
    [] step = "InitImGui"                 -> {"device", "window", "instance",
                                              "physical_device", "surface",
                                              "render_pass"}

\* The objects a step of Init creates for its own use: the two shader
\* modules of CreateGraphicsPipeline (lines 824-825), the staging buffer,
\* its memory and the command buffer of CopyBuffer in CreateVertexBuffer
\* and CreateIndexBuffer.
Transients(step) ==
  CASE step = "CreateGraphicsPipeline" -> {"vert_shader_module",
                                           "frag_shader_module"}
    [] step = "CreateVertexBuffer"     -> {"staging_buffer",
                                           "staging_buffer_memory",
                                           "copy_command_buffer"}
    [] step = "CreateIndexBuffer"      -> {"staging_buffer",
                                           "staging_buffer_memory",
                                           "copy_command_buffer"}
    [] OTHER                           -> {}

\* CreateVertexBuffer and CreateIndexBuffer without the vkDestroyBuffer and
\* vkFreeMemory of the staging buffer.
Releases_KeepStaging(step) ==
  CASE step = "CreateGraphicsPipeline" -> {"vert_shader_module",
                                           "frag_shader_module"}
    [] step = "CreateVertexBuffer"     -> {"copy_command_buffer"}
    [] step = "CreateIndexBuffer"      -> {"copy_command_buffer"}
    [] OTHER                           -> {}

\* The objects a step of Init destroys before it returns, when it
\* succeeds: vkDestroyShaderModule at lines 943-944, vkFreeCommandBuffers
\* at 1042, vkDestroyBuffer / vkFreeMemory at 1067-1068 and 1109-1110.
Releases(step) ==
  CASE step = "CreateGraphicsPipeline" -> {"vert_shader_module",
                                           "frag_shader_module"}
    [] step = "CreateVertexBuffer"     -> {"staging_buffer",
                                           "staging_buffer_memory",
                                           "copy_command_buffer"}
    [] step = "CreateIndexBuffer"      -> {"staging_buffer",
                                           "staging_buffer_memory",
                                           "copy_command_buffer"}
    [] OTHER                           -> {}

\* The objects DrawFrame hands to the GPU API.
DrawFrameConsumes ==
  {"device", "fences", "semaphores", "swapchain", "command_buffers",
   "uniform_buffers", "render_pass", "framebuffers", "graphics_pipeline",
   "pipeline_layout", "vertex_buffer", "index_buffer", "descriptor_sets",
   "imgui_context"}

\* Destroy with vkDestroyDevice called before vkDestroyCommandPool.
DestroyOrder_DeviceFirst ==
  << "ImGuiShutdown", "vkDestroyDescriptorPool_imgui", "CleanupSwapChain",
     "DestroyUniformBuffers", "vkDestroyDescriptorPool",
     "vkDestroyDescriptorSetLayout", "DestroyVertexBuffer",
     "DestroyIndexBuffer", "vkDestroyPipeline", "vkDestroyPipelineLayout",
     "vkDestroyRenderPass", "DestroySyncObjects", "vkDestroyDevice",
     "vkDestroyCommandPool", "vkDestroyDebugUtilsMessengerEXT",
     "vkDestroySurfaceKHR", "vkDestroyInstance", "SDL_DestroyWindow" >>

\* VulkanEngine::Destroy, lines 177-226.
DestroyOrder ==
  << "ImGuiShutdown", "vkDestroyDescriptorPool_imgui", "CleanupSwapChain",
     "DestroyUniformBuffers", "vkDestroyDescriptorPool",
     "vkDestroyDescriptorSetLayout", "DestroyVertexBuffer",
     "DestroyIndexBuffer", "vkDestroyPipeline", "vkDestroyPipelineLayout",
     "vkDestroyRenderPass", "DestroySyncObjects", "vkDestroyCommandPool",
     "vkDestroyDevice", "vkDestroyDebugUtilsMessengerEXT",
     "vkDestroySurfaceKHR", "vkDestroyInstance", "SDL_DestroyWindow" >>

\* The objects each statement of Destroy destroys (the descriptor sets and
\* the command buffers go with their pools).
Destroys(step) ==
  CASE step = "ImGuiShutdown"                   -> {"imgui_context"}
    [] step = "vkDestroyDescriptorPool_imgui"   -> {"imgui_descriptor_pool"}
    [] step = "CleanupSwapChain"                -> {"framebuffers",
                                                    "image_views",
                                                    "swapchain"}
    [] step = "DestroyUniformBuffers"           -> {"uniform_buffers",
                                                    "uniform_buffers_memory"}
    [] step = "vkDestroyDescriptorPool"         -> {"descriptor_pool",
                                                    "descriptor_sets"}
    [] step = "vkDestroyDescriptorSetLayout"    -> {"descriptor_set_layout"}
    [] step = "DestroyVertexBuffer"             -> {"vertex_buffer",
                                                    "vertex_buffer_memory"}
    [] step = "DestroyIndexBuffer"              -> {"index_buffer",
                                                    "index_buffer_memory"}
    [] step = "vkDestroyPipeline"               -> {"graphics_pipeline"}
    [] step = "vkDestroyPipelineLayout"         -> {"pipeline_layout"}
    [] step = "vkDestroyRenderPass"             -> {"render_pass"}
    [] step = "DestroySyncObjects"              -> {"semaphores", "fences"}
    [] step = "vkDestroyCommandPool"            -> {"command_pool",
                                                    "command_buffers"}
    [] step = "vkDestroyDevice"                 -> {"device"}
    [] step = "vkDestroyDebugUtilsMessengerEXT" -> {"debug_messenger"}
    [] step = "vkDestroySurfaceKHR"             -> {"surface"}
    [] step = "vkDestroyInstance"               -> {"instance",
                                                    "physical_device"}
    [] step = "SDL_DestroyWindow"               -> {"window"}

\* ------------------------------------------------------------------------
\* Initial state: a default-constructed VulkanEngine (running_ has no
\* initializer, current_frame_ = 0, the vectors are empty).
\* ------------------------------------------------------------------------
Init ==
  /\ pc = "Init"
  /\ init_i = 1
  /\ destroy_i = 1
  /\ rs_ret = "none"
  /\ running_ \in BOOLEAN
  /\ current_frame_ = 0
  /\ live = {}
  /\ swap_chain_ = 0
  /\ swap_chain_images_ = 0
  /\ swap_chain_image_views_ = << >>
  /\ swap_chain_framebuffers_ = << >>
  /\ live_swapchains = {}
  /\ live_image_views = {}
  /\ live_framebuffers = {}
  /\ handles = 0
  /\ in_flight_fences_ = [f \in Frames |-> "none"]
  /\ image_available_semaphores_ = [f \in Frames |-> "none"]
  /\ command_buffers_ = [f \in Frames |-> "none"]
  /\ gpu_queue = << >>
  /\ image_index = 0
  /\ events = << >>
  /\ width = 0
  /\ height = 0
  /\ budget = MaxRecreations
  /\ resize_pending = FALSE
  /\ df = DfNone
  /\ destroyed_twice = FALSE
  /\ init_failed = {}
  /\ recorded_commands = [f \in Frames |-> << >>]
  /\ imgui_frame = "closed"
  /\ frames_after_quit = 0
  /\ surface = NoSurface
  /\ swap_chain_image_format_ = "VK_FORMAT_UNDEFINED"
  /\ swap_chain_extent_ = 0
  /\ render_pass_format = "VK_FORMAT_UNDEFINED"
  /\ extent_users = NoExtentUsers
  /\ call = NoCall

\* ------------------------------------------------------------------------
\* Swapchain construction and destruction
\* ------------------------------------------------------------------------

\* vkCreateSwapchainKHR + vkGetSwapchainImagesKHR: a new swapchain with n
\* images replaces the handle in swap_chain_.
CreateSwapChain(n) ==
  /\ handles' = handles + 1
  /\ swap_chain_' = handles + 1
  /\ live_swapchains' = live_swapchains \cup {handles + 1}
  /\ swap_chain_images_' = n
  /\ UNCHANGED << swap_chain_image_views_, swap_chain_framebuffers_,
                  live_image_views, live_framebuffers, destroyed_twice >>

\* One new image view per swapchain image.
CreateImageViews ==
  /\ swap_chain_image_views_' =
       [i \in 1 .. swap_chain_images_ |-> handles + i]
  /\ live_image_views' =
       live_image_views \cup {handles + i : i \in 1 .. swap_chain_images_}
  /\ handles' = handles + swap_chain_images_
  /\ UNCHANGED << swap_chain_, swap_chain_images_, swap_chain_framebuffers_,
                  live_swapchains, live_framebuffers, destroyed_twice >>

\* One new framebuffer per image view.
CreateFramebuffers ==
  /\ swap_chain_framebuffers_' =
       [i \in 1 .. Len(swap_chain_image_views_) |-> handles + i]
  /\ live_framebuffers' =
       live_framebuffers \cup
         {handles + i : i \in 1 .. Len(swap_chain_image_views_)}
  /\ handles' = handles + Len(swap_chain_image_views_)
  /\ UNCHANGED << swap_chain_, swap_chain_images_, swap_chain_image_views_,
                  live_swapchains, live_image_views, destroyed_twice >>

\* CleanupSwapChain without the loop over swap_chain_image_views_.
CleanupSwapChain_LeakViews ==
  /\ live_framebuffers' = live_framebuffers \ Range(swap_chain_framebuffers_)
  /\ live_swapchains' = live_swapchains \ {swap_chain_}
  /\ destroyed_twice' =
       \/ destroyed_twice
       \/ ~(Range(swap_chain_framebuffers_) \subseteq live_framebuffers)
       \/ swap_chain_ \notin live_swapchains
  /\ UNCHANGED << swap_chain_, swap_chain_images_, swap_chain_image_views_,
                  swap_chain_framebuffers_, live_image_views, handles >>

\* Destroys the framebuffers and image views the vectors hold and the
\* swapchain; the vectors keep the stale handles.
CleanupSwapChain ==
  /\ live_framebuffers' = live_framebuffers \ Range(swap_chain_framebuffers_)
  /\ live_image_views' = live_image_views \ Range(swap_chain_image_views_)
  /\ live_swapchains' = live_swapchains \ {swap_chain_}
  /\ destroyed_twice' =
       \/ destroyed_twice
       \/ ~(Range(swap_chain_framebuffers_) \subseteq live_framebuffers)
       \/ ~(Range(swap_chain_image_views_) \subseteq live_image_views)
       \/ swap_chain_ \notin live_swapchains
  /\ UNCHANGED << swap_chain_, swap_chain_images_, swap_chain_image_views_,
                  swap_chain_framebuffers_, handles >>


\* ------------------------------------------------------------------------
\* VulkanEngine::Init
\* ------------------------------------------------------------------------

\* One statement of Init: the call at position init_i runs to completion
\* and leaves its objects behind; after the last one main calls Run.
InitStep(step) ==
  /\ pc = "Init"
  /\ init_i <= Len(InitOrder)
  /\ InitOrder[init_i] = step
  /\ live' = (live \cup Produces(step) \cup Transients(step))
                \ Releases(step)
  /\ init_i' = init_i + 1
  /\ pc' = IF init_i = Len(InitOrder) THEN "run_top" ELSE "Init"
  /\ UNCHANGED << destroy_i, helperVars, imgui_frame,
                  frames_after_quit, init_failed, recorded_commands, rs_ret,
                  current_frame_, gpu_queue, image_index, envVars, rsLocals,
                  resize_pending, df >>

PlainInitStep(step) ==
  /\ InitStep(step)
  /\ destroyed_twice' =
       \/ destroyed_twice
       \/ ~(Releases(step) \subseteq
              live \cup Produces(step) \cup Transients(step))
  /\ UNCHANGED << running_, swapVars, in_flight_fences_,
                  image_available_semaphores_, command_buffers_ >>

InitSDL ==
  /\ InitStep("InitSDL")
  /\ running_' = TRUE
  /\ UNCHANGED << swapVars, in_flight_fences_, image_available_semaphores_,
                  command_buffers_, destroyed_twice >>

InitVulkanInstance == PlainInitStep("InitVulkanInstance")

SetupDebugMessenger == PlainInitStep("SetupDebugMessenger")

CreateSurface == PlainInitStep("CreateSurface")

PickPhysicalDevice == PlainInitStep("PickPhysicalDevice")

CreateLogicalDevice == PlainInitStep("CreateLogicalDevice")

Init_CreateSwapChain ==
  /\ InitStep("CreateSwapChain")
  /\ \E n \in 1 .. MaxImages : CreateSwapChain(n)
  /\ UNCHANGED << running_, in_flight_fences_, image_available_semaphores_,
                  command_buffers_ >>

Init_CreateImageViews ==
  /\ InitStep("CreateImageViews")
  /\ CreateImageViews
  /\ UNCHANGED << running_, in_flight_fences_, image_available_semaphores_,
                  command_buffers_ >>

CreateRenderPass == PlainInitStep("CreateRenderPass")

CreateDescriptorSetLayout == PlainInitStep("CreateDescriptorSetLayout")

CreateGraphicsPipeline == PlainInitStep("CreateGraphicsPipeline")

Init_CreateFramebuffers ==
  /\ InitStep("CreateFramebuffers")
  /\ CreateFramebuffers
  /\ UNCHANGED << running_, in_flight_fences_, image_available_semaphores_,
                  command_buffers_ >>

CreateCommandPool == PlainInitStep("CreateCommandPool")

CreateVertexBuffer == PlainInitStep("CreateVertexBuffer")

CreateIndexBuffer == PlainInitStep("CreateIndexBuffer")

CreateUniformBuffers == PlainInitStep("CreateUniformBuffers")

CreateDescriptorPool == PlainInitStep("CreateDescriptorPool")

CreateDescriptorSets == PlainInitStep("CreateDescriptorSets")

CreateCommandBuffer ==
  /\ InitStep("CreateCommandBuffer")
  /\ command_buffers_' = [f \in Frames |-> "initial"]
  /\ UNCHANGED << running_, swapVars, in_flight_fences_,
                  image_available_semaphores_, destroyed_twice >>

\* The fences are created with VK_FENCE_CREATE_SIGNALED_BIT.
CreateSyncObjects ==
  /\ InitStep("CreateSyncObjects")
  /\ in_flight_fences_' = [f \in Frames |-> "signaled"]
  /\ image_available_semaphores_' = [f \in Frames |-> "unsignaled"]
  /\ UNCHANGED << running_, swapVars, command_buffers_, destroyed_twice >>

InitImGui == PlainInitStep("InitImGui")

VulkanEngine_Init ==
  \/ InitSDL
  \/ InitVulkanInstance
  \/ SetupDebugMessenger
  \/ CreateSurface
  \/ PickPhysicalDevice
  \/ CreateLogicalDevice
  \/ Init_CreateSwapChain
  \/ Init_CreateImageViews
  \/ CreateRenderPass
  \/ CreateDescriptorSetLayout
  \/ CreateGraphicsPipeline
  \/ Init_CreateFramebuffers
  \/ CreateCommandPool
  \/ CreateVertexBuffer
  \/ CreateIndexBuffer
  \/ CreateUniformBuffers
  \/ CreateDescriptorPool
  \/ CreateDescriptorSets
  \/ CreateCommandBuffer
  \/ CreateSyncObjects
  \/ InitImGui

\* A statement of Init fails: the function logs the error and returns
\* without leaving its object behind (its handle keeps the value it had),
\* and Init, which looks at no result (TODO at lines 122-123), goes on to
\* the next statement.
InitStepFails ==
  /\ pc = "Init"
  /\ init_i <= Len(InitOrder)
  /\ Cardinality(init_failed) < MaxInitFailures
  /\ init_failed' = init_failed \cup {InitOrder[init_i]}
  /\ init_i' = init_i + 1
  /\ pc' = IF init_i = Len(InitOrder) THEN "run_top" ELSE "Init"
  /\ UNCHANGED << destroy_i, helperVars, imgui_frame,
                  frames_after_quit, destroyed_twice, recorded_commands, rs_ret,
                  running_, current_frame_, live, swapVars, syncVars,
                  image_index, envVars, rsLocals, resize_pending, df >>

\* What CreateGraphicsPipeline leaves behind on each of its failing
\* returns: at line 827 after one of the two CreateShaderModule calls
\* failed (the other module exists), at line 917 after vkCreatePipelineLayout
\* failed (both modules exist), at line 940 after vkCreateGraphicsPipelines
\* failed (both modules and the pipeline layout exist). None of these
\* returns is preceded by vkDestroyShaderModule. The return at 827 with both
\* modules missing leaves nothing and is InitStepFails.
CreateGraphicsPipelineLeftovers ==
  { {"frag_shader_module"},
    {"vert_shader_module"},
    {"vert_shader_module", "frag_shader_module"},
    {"vert_shader_module", "frag_shader_module", "pipeline_layout"} }

\* CreateGraphicsPipeline returning early.
CreateGraphicsPipeline_Fails ==
  /\ pc = "Init"
  /\ init_i <= Len(InitOrder)
  /\ InitOrder[init_i] = "CreateGraphicsPipeline"
  /\ Cardinality(init_failed) < MaxInitFailures
  /\ \E left \in CreateGraphicsPipelineLeftovers : live' = live \cup left
  /\ init_failed' = init_failed \cup {InitOrder[init_i]}
  /\ init_i' = init_i + 1
  /\ pc' = IF init_i = Len(InitOrder) THEN "run_top" ELSE "Init"
  /\ UNCHANGED << destroy_i, helperVars, imgui_frame,
                  frames_after_quit, destroyed_twice, recorded_commands, rs_ret,
                  running_, current_frame_, swapVars, syncVars,
                  image_index, envVars, rsLocals, resize_pending, df >>

\* ------------------------------------------------------------------------
\* VulkanEngine::RecreateSwapChain
\* ------------------------------------------------------------------------

\* The call itself: width and height start at 0.
CallRecreateSwapChain(ret) ==
  /\ pc' = "rs_size"
  /\ rs_ret' = ret
  /\ width' = 0
  /\ height' = 0

\* The loop of RecreateSwapChain with the condition
\* width == 0 && height == 0.
RS_GetWindowSize_BothZero ==
  /\ pc = "rs_size"
  /\ IF width = 0 /\ height = 0
       THEN /\ \E w \in WindowSizes, h \in WindowSizes :
                 width' = w /\ height' = h
            /\ pc' = "rs_wait"
       ELSE /\ pc' = "rs_idle"
            /\ UNCHANGED rsLocals
  /\ UNCHANGED << init_i, destroy_i, helperVars, imgui_frame,
                  frames_after_quit, destroyed_twice, init_failed,
                  recorded_commands, rs_ret, running_, current_frame_, live,
                  swapVars, syncVars, image_index, envVars, resize_pending,
                  df >>

\* while (width == 0 | height == 0) { SDL_GetWindowSize(...);
\* the size read is whatever the window has at that moment.
RS_GetWindowSize ==
  /\ pc = "rs_size"
  /\ IF width = 0 \/ height = 0
       THEN /\ \E w \in WindowSizes, h \in WindowSizes :
                 width' = w /\ height' = h
            /\ pc' = "rs_wait"
       ELSE /\ pc' = "rs_idle"
            /\ UNCHANGED rsLocals
  /\ UNCHANGED << init_i, destroy_i, helperVars, imgui_frame,
                  frames_after_quit, destroyed_twice, init_failed,
                  recorded_commands, rs_ret, running_, current_frame_, live,
                  swapVars, syncVars, image_index, envVars, resize_pending,
                  df >>

\*   SDL_WaitEvent(nullptr); }  blocks until the event queue holds an
\* event and leaves the event in the queue.
RS_WaitEvent ==
  /\ pc = "rs_wait"
  /\ events # << >>
  /\ pc' = "rs_size"
  /\ UNCHANGED << init_i, destroy_i, helperVars, imgui_frame,
                  frames_after_quit, destroyed_twice, init_failed,
                  recorded_commands, rs_ret, running_, current_frame_, live,
                  swapVars, syncVars, image_index, envVars, rsLocals,
                  resize_pending, df >>

\* RecreateSwapChain without its vkDeviceWaitIdle.
RS_DeviceWaitIdle_NoWait ==
  /\ pc = "rs_idle"
  /\ pc' = "rs_cleanup"
  /\ UNCHANGED << init_i, destroy_i, helperVars, imgui_frame,
                  frames_after_quit, destroyed_twice, init_failed,
                  recorded_commands, rs_ret, running_, current_frame_, live,
                  swapVars, syncVars, image_index, envVars, rsLocals,
                  resize_pending, df >>

\* vkDeviceWaitIdle(device_) returns when no submitted work is pending.
RS_DeviceWaitIdle ==
  /\ pc = "rs_idle"
  /\ gpu_queue = << >>
  /\ pc' = "rs_cleanup"
  /\ UNCHANGED << init_i, destroy_i, helperVars, imgui_frame,
                  frames_after_quit, destroyed_twice, init_failed,
                  recorded_commands, rs_ret, running_, current_frame_, live,
                  swapVars, syncVars, image_index, envVars, rsLocals,
                  resize_pending, df >>

RS_CleanupSwapChain ==
  /\ pc = "rs_cleanup"
  /\ CleanupSwapChain
  /\ pc' = "rs_create_swapchain"
  /\ UNCHANGED << init_i, destroy_i, helperVars, imgui_frame,
                  frames_after_quit, init_failed,
                  recorded_commands, rs_ret, running_, current_frame_, live,
                  syncVars, image_index, envVars, rsLocals, resize_pending,
                  df >>

RS_CreateSwapChain ==
  /\ pc = "rs_create_swapchain"
  /\ \E n \in 1 .. MaxImages : CreateSwapChain(n)
  /\ pc' = "rs_create_views"
  /\ UNCHANGED << init_i, destroy_i, helperVars, imgui_frame,
                  frames_after_quit, destroyed_twice, init_failed,
                  recorded_commands, rs_ret, running_, current_frame_, live,
                  syncVars, image_index, envVars, rsLocals, resize_pending,
                  df >>

RS_CreateImageViews ==
  /\ pc = "rs_create_views"
  /\ CreateImageViews
  /\ pc' = "rs_create_framebuffers"
  /\ UNCHANGED << init_i, destroy_i, helperVars, imgui_frame,
                  frames_after_quit, destroyed_twice, init_failed,
                  recorded_commands, rs_ret, running_, current_frame_, live,
                  syncVars, image_index, envVars, rsLocals, resize_pending,
                  df >>

\* The last statement; RecreateSwapChain returns to its caller.
RS_CreateFramebuffers ==
  /\ pc = "rs_create_framebuffers"
  /\ CreateFramebuffers
  /\ pc' = rs_ret
  /\ rs_ret' = "none"
  /\ resize_pending' = FALSE
  /\ df' = IF rs_ret = "run_poll" THEN df
           ELSE [df EXCEPT !.recreated =
                   IF rs_ret = "df_advance" THEN "after_present"
                   ELSE "after_acquire"]
  /\ width' = 0
  /\ height' = 0
  /\ UNCHANGED << init_i, destroy_i, helperVars, imgui_frame,
                  frames_after_quit, destroyed_twice, init_failed,
                  recorded_commands, running_, current_frame_, live,
                  syncVars, image_index, envVars >>

RecreateSwapChain ==
  \/ RS_GetWindowSize
  \/ RS_WaitEvent
  \/ RS_DeviceWaitIdle
  \/ RS_CleanupSwapChain
  \/ RS_CreateSwapChain
  \/ RS_CreateImageViews
  \/ RS_CreateFramebuffers


\* ------------------------------------------------------------------------
\* VulkanEngine::Run
\* ------------------------------------------------------------------------

\* while (running_) { ... }  followed in main by Destroy.
\* The loop of Run with while (true): the condition ignores running_.
Run_While_Forever ==
  /\ pc = "run_top"
  /\ pc' = "run_poll"
  /\ UNCHANGED << init_i, destroy_i, helperVars, imgui_frame,
                  frames_after_quit, destroyed_twice, init_failed,
                  recorded_commands, rs_ret, running_, current_frame_, live,
                  swapVars, syncVars, image_index, envVars, rsLocals,
                  resize_pending, df >>

Run_While ==
  /\ pc = "run_top"
  /\ pc' = IF running_ THEN "run_poll" ELSE "Destroy"
  /\ UNCHANGED << init_i, destroy_i, helperVars, imgui_frame,
                  frames_after_quit, destroyed_twice, init_failed,
                  recorded_commands, rs_ret, running_, current_frame_, live,
                  swapVars, syncVars, image_index, envVars, rsLocals,
                  resize_pending, df >>

\* The event loop with a RESIZED case that does not recreate the swapchain.
Run_PollEvent_NoRecreate ==
  /\ pc = "run_poll"
  /\ IF events = << >>
       THEN /\ pc' = "run_newframe"
            /\ UNCHANGED << events, running_, resize_pending >>
       ELSE /\ events' = Tail(events)
            /\ running_' = IF Head(events) = "QUIT" THEN FALSE ELSE running_
            /\ resize_pending' =
                 IF Head(events) = "RESIZED" THEN TRUE ELSE resize_pending
            /\ pc' = "run_poll"
  /\ UNCHANGED << init_i, destroy_i, helperVars, imgui_frame,
                  frames_after_quit, destroyed_twice, init_failed,
                  recorded_commands, rs_ret, current_frame_, live, swapVars,
                  syncVars, image_index, budget, rsLocals, df >>

\* while (SDL_PollEvent(&event) != 0) { switch (event.type) ... }
Run_PollEvent ==
  /\ pc = "run_poll"
  /\ IF events = << >>
       THEN /\ pc' = "run_newframe"
            /\ UNCHANGED << events, running_, resize_pending >>
       ELSE /\ events' = Tail(events)
            /\ running_' = IF Head(events) = "QUIT" THEN FALSE ELSE running_
            /\ resize_pending' =
                 IF Head(events) = "RESIZED" THEN TRUE ELSE resize_pending
            /\ pc' = IF Head(events) = "RESIZED" THEN "run_resize_idle"
                     ELSE "run_poll"
  /\ UNCHANGED << init_i, destroy_i, helperVars, imgui_frame,
                  frames_after_quit, destroyed_twice, init_failed,
                  recorded_commands, rs_ret, current_frame_, live, swapVars,
                  syncVars, image_index, budget, rsLocals, df >>

\* case SDL_EVENT_WINDOW_RESIZED: vkDeviceWaitIdle(device_);
\*                                RecreateSwapChain();
Run_ResizeWaitIdle ==
  /\ pc = "run_resize_idle"
  /\ gpu_queue = << >>
  /\ CallRecreateSwapChain("run_poll")
  /\ UNCHANGED << init_i, destroy_i, helperVars, imgui_frame,
                  frames_after_quit, destroyed_twice, init_failed,
                  recorded_commands, running_, current_frame_, live,
                  swapVars, syncVars, image_index, envVars, resize_pending,
                  df >>

\* ImGui_ImplVulkan_NewFrame ... ImGui::ShowDemoWindow, then DrawFrame().
Run_NewFrame ==
  /\ pc = "run_newframe"
  /\ imgui_frame' = "open"
  /\ frames_after_quit' =
       IF running_ THEN frames_after_quit ELSE frames_after_quit + 1
  /\ pc' = "df_wait"
  /\ UNCHANGED << init_i, destroy_i, helperVars,
                  destroyed_twice, init_failed,
                  recorded_commands, rs_ret, running_, current_frame_, live,
                  swapVars, syncVars, image_index, envVars, rsLocals,
                  resize_pending, df >>

\* vkDeviceWaitIdle(device_) at the end of every loop iteration.  DrawFrame
\* has returned and its local image_index no longer exists.
\* The end of an iteration of Run without the vkDeviceWaitIdle of line 172.
Run_DeviceWaitIdle_NoWait ==
  /\ pc = "run_idle"
  /\ pc' = "run_top"
  /\ image_index' = 0
  /\ UNCHANGED << init_i, destroy_i, helperVars, imgui_frame,
                  frames_after_quit, destroyed_twice, init_failed,
                  recorded_commands, rs_ret, running_, current_frame_, live,
                  swapVars, syncVars, envVars, rsLocals,
                  resize_pending, df >>

Run_DeviceWaitIdle ==
  /\ pc = "run_idle"
  /\ gpu_queue = << >>
  /\ pc' = "run_top"
  /\ image_index' = 0
  /\ UNCHANGED << init_i, destroy_i, helperVars, imgui_frame,
                  frames_after_quit, destroyed_twice, init_failed,
                  recorded_commands, rs_ret, running_, current_frame_, live,
                  swapVars, syncVars, envVars, rsLocals,
                  resize_pending, df >>

Run ==
  \/ Run_While
  \/ Run_PollEvent
  \/ Run_ResizeWaitIdle
  \/ Run_NewFrame
  \/ Run_DeviceWaitIdle

\* ------------------------------------------------------------------------
\* VulkanEngine::DrawFrame
\* ------------------------------------------------------------------------

AcquireResults == {"SUCCESS", "SUBOPTIMAL", "OUT_OF_DATE", "ERROR"}

PresentResults == {"SUCCESS", "SUBOPTIMAL", "OUT_OF_DATE", "ERROR"}

\* DrawFrame without the fence wait.
DF_WaitForFences_NoWait ==
  /\ pc = "df_wait"
  /\ pc' = "df_acquire"
  /\ df' = [DfNone EXCEPT !.frame = current_frame_]
  /\ UNCHANGED << init_i, destroy_i, helperVars, imgui_frame,
                  frames_after_quit, destroyed_twice, init_failed,
                  recorded_commands, rs_ret, running_, current_frame_, live,
                  swapVars, syncVars, image_index, envVars, rsLocals,
                  resize_pending >>

\* DrawFrame resetting the fence right after the wait, before the acquire.
DF_WaitForFences_ResetEarly ==
  /\ pc = "df_wait"
  /\ in_flight_fences_[current_frame_] = "signaled"
  /\ in_flight_fences_' =
       [in_flight_fences_ EXCEPT ![current_frame_] = "unsignaled"]
  /\ pc' = "df_acquire"
  /\ df' = [DfNone EXCEPT !.frame = current_frame_]
  /\ UNCHANGED << init_i, destroy_i, helperVars, imgui_frame,
                  frames_after_quit, destroyed_twice, init_failed,
                  recorded_commands, rs_ret, running_, current_frame_, live,
                  swapVars, image_available_semaphores_, command_buffers_,
                  gpu_queue, image_index, envVars, rsLocals, resize_pending >>

\* vkWaitForFences(in_flight_fences_[current_frame_], UINT64_MAX)
DF_WaitForFences ==
  /\ pc = "df_wait"
  /\ in_flight_fences_[current_frame_] = "signaled"
  /\ pc' = "df_acquire"
  /\ df' = [DfNone EXCEPT !.frame = current_frame_]
  /\ UNCHANGED << init_i, destroy_i, helperVars, imgui_frame,
                  frames_after_quit, destroyed_twice, init_failed,
                  recorded_commands, rs_ret, running_, current_frame_, live,
                  swapVars, syncVars, image_index, envVars, rsLocals,
                  resize_pending >>

\* DrawFrame recreating the swapchain when the acquire returns SUBOPTIMAL
\* and then going on with the image index it acquired.
DF_AcquireNextImage_RecreateOnSuboptimal ==
  /\ pc = "df_acquire"
  /\ \E result \in AcquireResults :
       /\ df' = [df EXCEPT !.acquire = result,
                           !.acquired_from =
                              IF result \in {"SUCCESS", "SUBOPTIMAL"}
                                THEN swap_chain_ ELSE 0]
       /\ CASE result = "OUT_OF_DATE" ->
                 /\ budget > 0
                 /\ budget' = budget - 1
                 /\ CallRecreateSwapChain("run_idle")
                 /\ UNCHANGED << image_index, image_available_semaphores_ >>
            [] result = "SUBOPTIMAL" ->
                 /\ budget > 0
                 /\ budget' = budget - 1
                 /\ \E i \in 0 .. (swap_chain_images_ - 1) : image_index' = i
                 /\ image_available_semaphores_' =
                      [image_available_semaphores_
                         EXCEPT ![current_frame_] = "signaled"]
                 /\ CallRecreateSwapChain("df_update")
            [] result = "ERROR" ->
                 /\ pc' = "run_idle"
                 /\ UNCHANGED << budget, rs_ret, rsLocals, image_index,
                                 image_available_semaphores_ >>
            [] OTHER ->
                 /\ \E i \in 0 .. (swap_chain_images_ - 1) : image_index' = i
                 /\ image_available_semaphores_' =
                      [image_available_semaphores_
                         EXCEPT ![current_frame_] = "signaled"]
                 /\ pc' = "df_update"
                 /\ UNCHANGED << budget, rs_ret, rsLocals >>
  /\ UNCHANGED << init_i, destroy_i, helperVars, imgui_frame,
                  frames_after_quit, destroyed_twice, init_failed,
                  recorded_commands, running_, current_frame_, live,
                  swapVars, in_flight_fences_, command_buffers_, gpu_queue,
                  events, resize_pending >>

\* vkAcquireNextImageKHR and the branch on its result.
DF_AcquireNextImage ==
  /\ pc = "df_acquire"
  /\ \E result \in AcquireResults :
       /\ df' = [df EXCEPT !.acquire = result,
                           !.acquired_from =
                              IF result \in {"SUCCESS", "SUBOPTIMAL"}
                                THEN swap_chain_ ELSE 0]
       /\ CASE result = "OUT_OF_DATE" ->
                 /\ budget > 0
                 /\ budget' = budget - 1
                 /\ CallRecreateSwapChain("run_idle")
                 /\ UNCHANGED << image_index, image_available_semaphores_ >>
            [] result = "ERROR" ->
                 /\ pc' = "run_idle"
                 /\ UNCHANGED << budget, rs_ret, rsLocals, image_index,
                                 image_available_semaphores_ >>
            [] OTHER ->
                 /\ \E i \in 0 .. (swap_chain_images_ - 1) : image_index' = i
                 /\ image_available_semaphores_' =
                      [image_available_semaphores_
                         EXCEPT ![current_frame_] = "signaled"]
                 /\ pc' = "df_update"
                 /\ UNCHANGED << budget, rs_ret, rsLocals >>
  /\ UNCHANGED << init_i, destroy_i, helperVars, imgui_frame,
                  frames_after_quit, destroyed_twice, init_failed,
                  recorded_commands, running_, current_frame_, live,
                  swapVars, in_flight_fences_, command_buffers_, gpu_queue,
                  events, resize_pending >>

\* DrawFrame passing the slot of the previous frame to UpdateUniformBuffer.
DF_UpdateUniformBuffer_OtherSlot ==
  /\ pc = "df_update"
  /\ df' = [df EXCEPT !.ubo = (current_frame_ + 1) % kMaxFramesInFlight]
  /\ pc' = "df_reset_fences"
  /\ UNCHANGED << init_i, destroy_i, helperVars, imgui_frame,
                  frames_after_quit, destroyed_twice, init_failed,
                  recorded_commands, rs_ret, running_, current_frame_, live,
                  swapVars, syncVars, image_index, envVars, rsLocals,
                  resize_pending >>

\* UpdateUniformBuffer(current_frame_): the memcpy into
\* uniform_buffers_mapped_[current_image]; df.ubo is the slot written.
DF_UpdateUniformBuffer ==
  /\ pc = "df_update"
  /\ df' = [df EXCEPT !.ubo = current_frame_]
  /\ pc' = "df_reset_fences"
  /\ UNCHANGED << init_i, destroy_i, helperVars, imgui_frame,
                  frames_after_quit, destroyed_twice, init_failed,
                  recorded_commands, rs_ret, running_, current_frame_, live,
                  swapVars, syncVars, image_index, envVars, rsLocals,
                  resize_pending >>

\* vkResetFences(in_flight_fences_[current_frame_])
DF_ResetFences ==
  /\ pc = "df_reset_fences"
  /\ in_flight_fences_' =
       [in_flight_fences_ EXCEPT ![current_frame_] = "unsignaled"]
  /\ df' = [df EXCEPT !.reset_fence = TRUE]
  /\ pc' = "df_reset_cb"
  /\ UNCHANGED << init_i, destroy_i, helperVars, imgui_frame,
                  frames_after_quit, destroyed_twice, init_failed,
                  recorded_commands, rs_ret, running_, current_frame_, live,
                  swapVars, image_available_semaphores_, command_buffers_,
                  gpu_queue, image_index, envVars, rsLocals, resize_pending >>

\* vkResetCommandBuffer(command_buffers_[current_frame_], 0)
DF_ResetCommandBuffer ==
  /\ pc = "df_reset_cb"
  /\ command_buffers_' = [command_buffers_ EXCEPT ![current_frame_] = "initial"]
  /\ recorded_commands' = [recorded_commands EXCEPT ![current_frame_] = << >>]
  /\ pc' = "df_record"
  /\ UNCHANGED << init_i, destroy_i, helperVars, imgui_frame,
                  frames_after_quit, destroyed_twice, init_failed,
                  rs_ret, running_, current_frame_, live,
                  swapVars, in_flight_fences_, image_available_semaphores_,
                  gpu_queue, image_index, envVars, rsLocals, resize_pending,
                  df >>

\* RecordCommandBuffer issuing vkCmdDrawIndexed with vertices.size() as
\* its index count.
RecordCommandBuffer_DrawVertices(frame) ==
  << [cmd |-> "vkCmdBeginRenderPass",     args |-> << >>],
     [cmd |-> "vkCmdBindPipeline",        args |-> << >>],
     [cmd |-> "vkCmdBindVertexBuffers",   args |-> << 0, 1 >>],
     [cmd |-> "vkCmdBindIndexBuffer",     args |-> << 0 >>],
     [cmd |-> "vkCmdSetViewport",         args |-> << 0, 1 >>],
     [cmd |-> "vkCmdSetScissor",          args |-> << 0, 1 >>],
     [cmd |-> "vkCmdBindDescriptorSets",  args |-> << 0, 1, frame >>],
     [cmd |-> "vkCmdDrawIndexed",
      args |-> << Len(vertices), 1, 0, 0, 0 >>],
     [cmd |-> "ImGui_ImplVulkan_RenderDrawData", args |-> << >>],
     [cmd |-> "vkCmdEndRenderPass",       args |-> << >>] >>

\* The commands RecordCommandBuffer records between vkBeginCommandBuffer
\* and vkEndCommandBuffer, with their integer operands (the framebuffer
\* of vkCmdBeginRenderPass is swap_chain_framebuffers_[image_index]); the
\* descriptor set bound is descriptor_sets_[current_frame_].
RecordCommandBuffer(frame) ==
  << [cmd |-> "vkCmdBeginRenderPass",     args |-> << >>],
     [cmd |-> "vkCmdBindPipeline",        args |-> << >>],
     [cmd |-> "vkCmdBindVertexBuffers",   args |-> << 0, 1 >>],
     [cmd |-> "vkCmdBindIndexBuffer",     args |-> << 0 >>],
     [cmd |-> "vkCmdSetViewport",         args |-> << 0, 1 >>],
     [cmd |-> "vkCmdSetScissor",          args |-> << 0, 1 >>],
     [cmd |-> "vkCmdBindDescriptorSets",  args |-> << 0, 1, frame >>],
     [cmd |-> "vkCmdDrawIndexed",
      args |-> << Len(indices), 1, 0, 0, 0 >>],
     [cmd |-> "ImGui_ImplVulkan_RenderDrawData", args |-> << >>],
     [cmd |-> "vkCmdEndRenderPass",       args |-> << >>] >>

\* ImGui::Render(); RecordCommandBuffer(command_buffers_[current_frame_], ..)
DF_RecordCommandBuffer ==
  /\ pc = "df_record"
  /\ command_buffers_' =
       [command_buffers_ EXCEPT ![current_frame_] = "executable"]
  /\ recorded_commands' =
       [recorded_commands EXCEPT ![current_frame_] =
          RecordCommandBuffer(current_frame_)]
  /\ df' = [df EXCEPT !.recorded = TRUE]
  /\ imgui_frame' = "closed"
  /\ pc' = "df_submit"
  /\ UNCHANGED << init_i, destroy_i, helperVars,
                  frames_after_quit, destroyed_twice, init_failed,
                  rs_ret, running_, current_frame_, live,
                  swapVars, in_flight_fences_, image_available_semaphores_,
                  gpu_queue, image_index, envVars, rsLocals, resize_pending >>

\* DrawFrame advancing current_frame_ when vkQueueSubmit fails.
DF_QueueSubmit_AdvanceOnFailure ==
  /\ pc = "df_submit"
  /\ \E ok \in BOOLEAN :
       IF ok
         THEN /\ gpu_queue' = Append(gpu_queue, current_frame_)
              /\ command_buffers_' =
                   [command_buffers_ EXCEPT ![current_frame_] = "pending"]
              /\ df' = [df EXCEPT !.submitted = "ok"]
              /\ pc' = "df_present"
         ELSE /\ df' = [df EXCEPT !.submitted = "failed",
                                   !.acquired_from = 0]
              /\ pc' = "df_advance"
              /\ UNCHANGED << gpu_queue, command_buffers_ >>
  /\ UNCHANGED << init_i, destroy_i, helperVars, imgui_frame,
                  frames_after_quit, destroyed_twice, init_failed,
                  recorded_commands, rs_ret, running_, current_frame_, live,
                  swapVars, in_flight_fences_, image_available_semaphores_,
                  image_index, envVars, rsLocals, resize_pending >>

\* vkQueueSubmit(graphics_queue_, ..., in_flight_fences_[current_frame_])
\* and the early return when it fails.
DF_QueueSubmit ==
  /\ pc = "df_submit"
  /\ \E ok \in BOOLEAN :
       IF ok
         THEN /\ gpu_queue' = Append(gpu_queue, current_frame_)
              /\ command_buffers_' =
                   [command_buffers_ EXCEPT ![current_frame_] = "pending"]
              /\ df' = [df EXCEPT !.submitted = "ok"]
              /\ pc' = "df_present"
         ELSE /\ df' = [df EXCEPT !.submitted = "failed",
                                   !.acquired_from = 0]
              /\ pc' = "run_idle"
              /\ UNCHANGED << gpu_queue, command_buffers_ >>
  /\ UNCHANGED << init_i, destroy_i, helperVars, imgui_frame,
                  frames_after_quit, destroyed_twice, init_failed,
                  recorded_commands, rs_ret, running_, current_frame_, live,
                  swapVars, in_flight_fences_, image_available_semaphores_,
                  image_index, envVars, rsLocals, resize_pending >>

\* DrawFrame returning right after the recreation on the present path.
DF_QueuePresent_ReturnAfterRecreate ==
  /\ pc = "df_present"
  /\ \E result \in PresentResults :
       /\ df' = [df EXCEPT !.present = result, !.presented = TRUE,
                           !.acquired_from =
                              IF result = "ERROR" THEN 0 ELSE @]
       /\ CASE result \in {"OUT_OF_DATE", "SUBOPTIMAL"} ->
                 /\ budget > 0
                 /\ budget' = budget - 1
                 /\ CallRecreateSwapChain("run_idle")
            [] result = "ERROR" ->
                 /\ pc' = "run_idle"
                 /\ UNCHANGED << budget, rs_ret, rsLocals >>
            [] OTHER ->
                 /\ pc' = "df_advance"
                 /\ UNCHANGED << budget, rs_ret, rsLocals >>
  /\ UNCHANGED << init_i, destroy_i, helperVars, imgui_frame,
                  frames_after_quit, destroyed_twice, init_failed,
                  recorded_commands, running_, current_frame_, live,
                  swapVars, syncVars, image_index, events, resize_pending >>

\* vkQueuePresentKHR and the branch on its result.
DF_QueuePresent ==
  /\ pc = "df_present"
  /\ \E result \in PresentResults :
       /\ df' = [df EXCEPT !.present = result, !.presented = TRUE,
                           !.acquired_from =
                              IF result = "ERROR" THEN 0 ELSE @]
       /\ CASE result \in {"OUT_OF_DATE", "SUBOPTIMAL"} ->
                 /\ budget > 0
                 /\ budget' = budget - 1
                 /\ CallRecreateSwapChain("df_advance")
            [] result = "ERROR" ->
                 /\ pc' = "run_idle"
                 /\ UNCHANGED << budget, rs_ret, rsLocals >>
            [] OTHER ->
                 /\ pc' = "df_advance"
                 /\ UNCHANGED << budget, rs_ret, rsLocals >>
  /\ UNCHANGED << init_i, destroy_i, helperVars, imgui_frame,
                  frames_after_quit, destroyed_twice, init_failed,
                  recorded_commands, running_, current_frame_, live,
                  swapVars, syncVars, image_index, events, resize_pending >>

\* The advance of current_frame_ without the modulo.
DF_Advance_NoModulo ==
  /\ pc = "df_advance"
  /\ current_frame_' = current_frame_ + 1
  /\ df' = [df EXCEPT !.acquired_from = 0]
  /\ pc' = "run_idle"
  /\ UNCHANGED << init_i, destroy_i, helperVars, imgui_frame,
                  frames_after_quit, destroyed_twice, init_failed,
                  recorded_commands, rs_ret, running_, live, swapVars,
                  syncVars, image_index, envVars, rsLocals, resize_pending >>

\* current_frame_ = (current_frame_ + 1) % kMaxFramesInFlight;
DF_Advance ==
  /\ pc = "df_advance"
  /\ current_frame_' = (current_frame_ + 1) % kMaxFramesInFlight
  /\ df' = [df EXCEPT !.acquired_from = 0]
  /\ pc' = "run_idle"
  /\ UNCHANGED << init_i, destroy_i, helperVars, imgui_frame,
                  frames_after_quit, destroyed_twice, init_failed,
                  recorded_commands, rs_ret, running_, live, swapVars,
                  syncVars, image_index, envVars, rsLocals, resize_pending >>

DrawFrame ==
  \/ DF_WaitForFences
  \/ DF_AcquireNextImage
  \/ DF_UpdateUniformBuffer
  \/ DF_ResetFences
  \/ DF_ResetCommandBuffer
  \/ DF_RecordCommandBuffer
  \/ DF_QueueSubmit
  \/ DF_QueuePresent
  \/ DF_Advance

\* ------------------------------------------------------------------------
\* VulkanEngine::Destroy
\* ------------------------------------------------------------------------

DestroyStep(step) ==
  /\ pc = "Destroy"
  /\ destroy_i <= Len(DestroyOrder)
  /\ DestroyOrder[destroy_i] = step
  /\ live' = live \ Destroys(step)
  /\ destroy_i' = destroy_i + 1
  /\ pc' = IF destroy_i = Len(DestroyOrder) THEN "done" ELSE "Destroy"
  /\ UNCHANGED << init_i, rs_ret, running_, current_frame_, syncVars,
                  image_index, envVars, rsLocals, resize_pending, df,
                  init_failed, recorded_commands, helperVars, imgui_frame,
                  frames_after_quit >>

Destroy_CleanupSwapChain ==
  /\ DestroyStep("CleanupSwapChain")
  /\ CleanupSwapChain

Destroy_Statement ==
  /\ \E step \in Range(DestroyOrder) \ {"CleanupSwapChain"} :
       /\ DestroyStep(step)
       /\ destroyed_twice' =
            (destroyed_twice \/ ~(Destroys(step) \subseteq live))
  /\ UNCHANGED swapVars

Destroy ==
  \/ Destroy_CleanupSwapChain
  \/ Destroy_Statement

\* ------------------------------------------------------------------------
\* The GPU and the window system
\* ------------------------------------------------------------------------

\* The oldest submission finishes: its wait on the image-available
\* semaphore is consumed and its fence is signaled.
GpuComplete ==
  /\ gpu_queue # << >>
  /\ gpu_queue' = Tail(gpu_queue)
  /\ in_flight_fences_' =
       [in_flight_fences_ EXCEPT ![Head(gpu_queue)] = "signaled"]
  /\ image_available_semaphores_' =
       [image_available_semaphores_ EXCEPT ![Head(gpu_queue)] = "unsignaled"]
  /\ command_buffers_' =
       [command_buffers_ EXCEPT ![Head(gpu_queue)] =
          IF @ = "pending" THEN "executable" ELSE @]
  /\ UNCHANGED << pc, init_i, destroy_i, helperVars, imgui_frame,
                  frames_after_quit, destroyed_twice, init_failed,
                  recorded_commands, rs_ret, running_, current_frame_,
                  live, swapVars, image_index, envVars, rsLocals,
                  resize_pending, df >>

\* The window system posts an event; events are only looked at by Run and
\* RecreateSwapChain, so the ones posted before Run starts are posted here.
EnvPostEvent ==
  /\ pc \notin {"Init", "Destroy", "done"}
  /\ Len(events) < MaxEvents
  /\ \E e \in EventTypes :
       /\ events' = Append(events, e)
       /\ IF e = "RESIZED"
            THEN budget > 0 /\ budget' = budget - 1
            ELSE budget' = budget
  /\ UNCHANGED << pc, init_i, destroy_i, helperVars, imgui_frame,
                  frames_after_quit, destroyed_twice, init_failed,
                  recorded_commands, rs_ret, running_, current_frame_,
                  live, swapVars, syncVars, image_index, rsLocals,
                  resize_pending, df >>

\* ------------------------------------------------------------------------
\* Specifications
\* ------------------------------------------------------------------------

Program == VulkanEngine_Init \/ Run \/ DrawFrame \/ RecreateSwapChain
             \/ Destroy

Next ==
  \/ VulkanEngine_Init
  \/ Run
  \/ DrawFrame
  \/ RecreateSwapChain
  \/ Destroy
  \/ GpuComplete
  \/ EnvPostEvent

\* main(): Init(); Run(); Destroy();
Spec == Init /\ [][Next]_vars


\* The frame loop without the device-wide wait at the end of an iteration
\* (the NOTE at lines 169-171 says it should not be there): DrawFrame calls
\* follow each other while earlier submissions are still executing.
Frames_SkipWaitIdle ==
  /\ pc = "run_idle"
  /\ pc' = "run_top"
  /\ image_index' = 0
  /\ UNCHANGED << init_i, destroy_i, helperVars, imgui_frame,
                  frames_after_quit, destroyed_twice, init_failed,
                  recorded_commands, rs_ret, running_, current_frame_, live,
                  swapVars, syncVars, envVars, rsLocals,
                  resize_pending, df >>

NextFrames ==
  \/ Next
  \/ Frames_SkipWaitIdle

\* Any sequence of DrawFrame calls and swapchain recreations: every
\* behaviour of Spec, and those in which the caller does not wait for the
\* device between two DrawFrame calls.
SpecFrames == Init /\ [][NextFrames]_vars

\* The main thread keeps running while it is not blocked, and the GPU
\* finishes every submission it was given.
FairSpec == Spec /\ WF_vars(Program) /\ WF_vars(GpuComplete)

\* main() up to the first DrawFrame call, with statements of Init that
\* fail: Init runs all its statements whatever their outcome, then Run
\* enters its loop (no event is waiting) and calls DrawFrame.
NextInitFail ==
  \/ VulkanEngine_Init
  \/ InitStepFails
  \/ CreateGraphicsPipeline_Fails
  \/ Run_While
  \/ Run_PollEvent
  \/ Run_NewFrame

SpecInitFail == Init /\ [][NextInitFail]_vars

\* ------------------------------------------------------------------------
\* Formats and extents: what CreateSwapChain, CreateRenderPass,
\* CreateFramebuffers and RecordCommandBuffer take from the surface and
\* from each other, through Init and any number of RecreateSwapChain calls
\* while the surface changes what it reports.
\* ------------------------------------------------------------------------

\* Longest list of surface formats the surface reports.
MaxFormats == 2

SurfaceFormats ==
  { [format |-> "VK_FORMAT_B8G8R8A8_SRGB",
     colorSpace |-> "VK_COLOR_SPACE_SRGB_NONLINEAR_KHR"],
    [format |-> "VK_FORMAT_B8G8R8A8_SRGB",
     colorSpace |-> "VK_COLOR_SPACE_HDR10_ST2084_EXT"],
    [format |-> "VK_FORMAT_R8G8B8A8_UNORM",
     colorSpace |-> "VK_COLOR_SPACE_SRGB_NONLINEAR_KHR"] }

\* The non-empty lists vkGetPhysicalDeviceSurfaceFormatsKHR may fill in.
FormatLists ==
  UNION {[1 .. n -> SurfaceFormats] : n \in 1 .. MaxFormats}

\* Extents the surface reports as its current extent (one number stands
\* for a width and height pair).
Extents == {1, 2}

Surfaces == [formats : FormatLists, extent : Extents]

\* ChooseSwapSurfaceFormat with the test on the format alone, without the
\* colour space.
ChooseSwapSurfaceFormat_FormatOnly(available_formats) ==
  LET wanted == {i \in DOMAIN available_formats :
                   available_formats[i].format = "VK_FORMAT_B8G8R8A8_SRGB"}
  IN IF wanted # {}
       THEN available_formats[CHOOSE i \in wanted :
                                \A j \in wanted : i <= j]
       ELSE available_formats[1]

\* ChooseSwapSurfaceFormat: the first B8G8R8A8_SRGB / SRGB_NONLINEAR entry,
\* or else the first entry.
ChooseSwapSurfaceFormat(available_formats) ==
  LET wanted == {i \in DOMAIN available_formats :
                   /\ available_formats[i].format = "VK_FORMAT_B8G8R8A8_SRGB"
                   /\ available_formats[i].colorSpace =
                        "VK_COLOR_SPACE_SRGB_NONLINEAR_KHR"}
  IN IF wanted # {}
       THEN available_formats[CHOOSE i \in wanted :
                                \A j \in wanted : i <= j]
       ELSE available_formats[1]

FormatPcs == {"sc_init_swapchain", "sc_render_pass", "sc_framebuffers",
              "sc_frame", "sc_recorded", "sc_recreate_swapchain"}

\* Everything but the format and extent state stays as constructed.
FormatFrame ==
  UNCHANGED << init_i, destroy_i, rs_ret, running_, current_frame_, live,
               swapVars, syncVars, image_index, envVars, rsLocals,
               resize_pending, df, destroyed_twice, init_failed,
               recorded_commands, imgui_frame, frames_after_quit, call >>

\* CreateSwapChain, lines 561-568 and 615-616: the format and the extent
\* chosen from what the surface reports now.
SC_CreateSwapChain ==
  /\ pc \in {"sc_init_swapchain", "sc_recreate_swapchain"}
  /\ swap_chain_image_format_' =
       ChooseSwapSurfaceFormat(surface.formats).format
  /\ swap_chain_extent_' = surface.extent
  /\ pc' = IF pc = "sc_init_swapchain" THEN "sc_render_pass"
           ELSE "sc_framebuffers"
  /\ UNCHANGED << surface, render_pass_format, extent_users >>
  /\ FormatFrame

\* CreateRenderPass, line 742, called by Init only.
SC_CreateRenderPass ==
  /\ pc = "sc_render_pass"
  /\ render_pass_format' = swap_chain_image_format_
  /\ pc' = "sc_framebuffers"
  /\ UNCHANGED << surface, swap_chain_image_format_, swap_chain_extent_,
                  extent_users >>
  /\ FormatFrame

\* CreateFramebuffers, lines 957-958.
SC_CreateFramebuffers ==
  /\ pc = "sc_framebuffers"
  /\ extent_users' = [extent_users EXCEPT !.framebuffers = swap_chain_extent_]
  /\ pc' = "sc_frame"
  /\ UNCHANGED << surface, swap_chain_image_format_, swap_chain_extent_,
                  render_pass_format >>
  /\ FormatFrame

\* RecordCommandBuffer, lines 1254, 1274-1275 and 1282.
SC_RecordCommandBuffer ==
  /\ pc = "sc_frame"
  /\ extent_users' = [extent_users EXCEPT !.render_area = swap_chain_extent_,
                                          !.viewport = swap_chain_extent_,
                                          !.scissor = swap_chain_extent_]
  /\ pc' = "sc_recorded"
  /\ UNCHANGED << surface, swap_chain_image_format_, swap_chain_extent_,
                  render_pass_format >>
  /\ FormatFrame

\* The frame is submitted and presented; the next one follows.
SC_FrameDone ==
  /\ pc = "sc_recorded"
  /\ pc' = "sc_frame"
  /\ UNCHANGED formatVars
  /\ FormatFrame

\* RecreateSwapChain is called (RESIZED, OUT_OF_DATE or SUBOPTIMAL): it
\* calls CreateSwapChain, CreateImageViews and CreateFramebuffers.
SC_RecreateSwapChain ==
  /\ pc \in {"sc_frame", "sc_recorded"}
  /\ pc' = "sc_recreate_swapchain"
  /\ UNCHANGED formatVars
  /\ FormatFrame

\* The window is resized or moved to another display: the surface reports
\* other formats or another extent.
SC_SurfaceChanges ==
  /\ pc \in FormatPcs
  /\ \E s \in Surfaces : surface' = s
  /\ UNCHANGED << pc, swap_chain_image_format_, swap_chain_extent_,
                  render_pass_format, extent_users >>
  /\ FormatFrame

InitFormats ==
  /\ pc = "sc_init_swapchain"
  /\ surface \in Surfaces
  /\ init_i = 1
  /\ destroy_i = 1
  /\ rs_ret = "none"
  /\ running_ = TRUE
  /\ current_frame_ = 0
  /\ live = {}
  /\ swap_chain_ = 0
  /\ swap_chain_images_ = 0
  /\ swap_chain_image_views_ = << >>
  /\ swap_chain_framebuffers_ = << >>
  /\ live_swapchains = {}
  /\ live_image_views = {}
  /\ live_framebuffers = {}
  /\ handles = 0
  /\ in_flight_fences_ = [f \in Frames |-> "none"]
  /\ image_available_semaphores_ = [f \in Frames |-> "none"]
  /\ command_buffers_ = [f \in Frames |-> "none"]
  /\ gpu_queue = << >>
  /\ image_index = 0
  /\ events = << >>
  /\ width = 0
  /\ height = 0
  /\ budget = MaxRecreations
  /\ resize_pending = FALSE
  /\ df = DfNone
  /\ destroyed_twice = FALSE
  /\ init_failed = {}
  /\ recorded_commands = [f \in Frames |-> << >>]
  /\ imgui_frame = "closed"
  /\ frames_after_quit = 0
  /\ swap_chain_image_format_ = "VK_FORMAT_UNDEFINED"
  /\ swap_chain_extent_ = 0
  /\ render_pass_format = "VK_FORMAT_UNDEFINED"
  /\ extent_users = NoExtentUsers
  /\ call = NoCall

NextFormats ==
  \/ SC_CreateSwapChain
  \/ SC_CreateRenderPass
  \/ SC_CreateFramebuffers
  \/ SC_RecordCommandBuffer
  \/ SC_FrameDone
  \/ SC_RecreateSwapChain
  \/ SC_SurfaceChanges

SpecFormats == InitFormats /\ [][NextFormats]_vars

\* ------------------------------------------------------------------------
\* Device selection: the functions of Init that look at what the physical
\* devices report (queue families, extensions, surface support, memory
\* types). Each is an operator computed as its code computes it; a call
\* is the record call = [fn, args, done, ret].
\* ------------------------------------------------------------------------

MaxFamilies == 2

MaxDevices == 2

MaxPresentModes == 2

MaxMemoryTypes == 2

\* std::nullopt of the two std::optional<uint32_t> of QueueFamilyIndices.
nullopt == -1

\* VK_NULL_HANDLE
VK_NULL_HANDLE == 0

\* All sequences over S of length at most n.
SeqsUpTo(S, n) == UNION {[1..k -> S] : k \in 0..n}

\* What a queue family reports: VK_QUEUE_GRAPHICS_BIT in queueFlags, and
\* the answer of vkGetPhysicalDeviceSurfaceSupportKHR for it.
QueueFamilies == [graphics : BOOLEAN, presentation : BOOLEAN]

FamilyLists == SeqsUpTo(QueueFamilies, MaxFamilies)

\* QueueFamilyIndices::IsComplete
IsComplete(qfi) ==
  qfi.graphics_family # nullopt /\ qfi.presentation_family # nullopt

\* The loop of FindQueueFamilies from family i (zero-based) on.
RECURSIVE FindQueueFamiliesFrom(_, _, _)
FindQueueFamiliesFrom(queue_families, i, qfi) ==
  IF i >= Len(queue_families)
    THEN qfi
    ELSE LET queue_family == queue_families[i + 1]
             seen == [graphics_family |->
                        IF queue_family.graphics
                          THEN i ELSE qfi.graphics_family,
                      presentation_family |->
                        IF queue_family.presentation
                          THEN i ELSE qfi.presentation_family]
         IN  IF IsComplete(seen)
               THEN seen
               ELSE FindQueueFamiliesFrom(queue_families, i + 1, seen)

\* The loop of FindQueueFamilies without the break: every family is
\* looked at and the last one of each kind is kept.
FindQueueFamilies_NoBreak(queue_families) ==
  LET Last(S) == IF S = {} THEN nullopt
                 ELSE (CHOOSE i \in S : \A j \in S : j <= i) - 1
  IN  [graphics_family |->
         Last({i \in DOMAIN queue_families : queue_families[i].graphics}),
       presentation_family |->
         Last({i \in DOMAIN queue_families :
                 queue_families[i].presentation})]

FindQueueFamilies(queue_families) ==
  FindQueueFamiliesFrom(queue_families, 0,
                        [graphics_family |-> nullopt,
                         presentation_family |-> nullopt])

\* CreateLogicalDevice, lines 484-498 and 526-529: one queue create info
\* per element of unique_queue_families, each with queueFamilyIndex =
\* indices.graphics_family.value(); then the two vkGetDeviceQueue calls.
CreateLogicalDevice_queues(queue_families) ==
  LET qfi == FindQueueFamilies(queue_families)
      unique_queue_families ==
        {qfi.graphics_family, qfi.presentation_family}
  IN  [queue_create_infos |->
         [k \in 1..Cardinality(unique_queue_families) |->
            [queueFamilyIndex |-> qfi.graphics_family,
             queueCount |-> 1]],
       graphics_queue_ |->
         [queueFamilyIndex |-> qfi.graphics_family, queueIndex |-> 0],
       presentation_queue_ |->
         [queueFamilyIndex |-> qfi.presentation_family,
          queueIndex |-> 0]]

PresentModes ==
  {"VK_PRESENT_MODE_IMMEDIATE_KHR", "VK_PRESENT_MODE_MAILBOX_KHR",
   "VK_PRESENT_MODE_FIFO_KHR"}

\* kDeviceExtensions
kDeviceExtensions == {"VK_KHR_swapchain"}

\* What a physical device reports for the surface: its queue families, its
\* extensions, the surface formats and the present modes.
DeviceFamilyLists ==
  { << [graphics |-> TRUE, presentation |-> FALSE] >>,
    << [graphics |-> TRUE, presentation |-> TRUE] >>,
    << [graphics |-> TRUE, presentation |-> FALSE],
       [graphics |-> FALSE, presentation |-> TRUE] >> }

PhysicalDevices ==
  [queue_families : DeviceFamilyLists,
   extensions : {{}, {"VK_KHR_swapchain"}},
   formats : {<< >>, << [format |-> "VK_FORMAT_B8G8R8A8_SRGB",
                   colorSpace |-> "VK_COLOR_SPACE_SRGB_NONLINEAR_KHR"] >>},
   present_modes : {<< >>, << "VK_PRESENT_MODE_FIFO_KHR" >>}]

\* The devices CreateSwapChain can meet: suitable ones, with any list of
\* present modes.
SwapChainDevices ==
  [queue_families : {<< [graphics |-> TRUE, presentation |-> TRUE] >>},
   extensions : {{"VK_KHR_swapchain"}},
   formats : {<< [format |-> "VK_FORMAT_B8G8R8A8_SRGB",
                   colorSpace |-> "VK_COLOR_SPACE_SRGB_NONLINEAR_KHR"] >>},
   present_modes : SeqsUpTo(PresentModes, MaxPresentModes) \ {<< >>}]

\* QuerySwapChainSupport: the formats are read into details.formats (line
\* 672); details.present_modes is resized to the reported count (680) and
\* the second vkGetPhysicalDeviceSurfacePresentModesKHR call is given
\* nullptr (681-682), so the elements keep the value resize gave them,
\* VkPresentModeKHR(0) = VK_PRESENT_MODE_IMMEDIATE_KHR.
QuerySwapChainSupport(device) ==
  [formats |-> device.formats,
   present_modes |-> [i \in 1..Len(device.present_modes) |->
                        "VK_PRESENT_MODE_IMMEDIATE_KHR"]]

ChooseSwapPresentMode(available_present_modes) ==
  IF \E i \in DOMAIN available_present_modes :
       available_present_modes[i] = "VK_PRESENT_MODE_MAILBOX_KHR"
    THEN "VK_PRESENT_MODE_MAILBOX_KHR"
    ELSE "VK_PRESENT_MODE_FIFO_KHR"

\* CreateSwapChain, lines 561-566 and 586: the present mode of the
\* swapchain create info.
CreateSwapChain_presentMode(device) ==
  LET swap_chain_support == QuerySwapChainSupport(device)
  IN  [examined |-> swap_chain_support.present_modes,
       presentMode |->
         ChooseSwapPresentMode(swap_chain_support.present_modes)]

CheckDeviceExtensionSupport(device) ==
  kDeviceExtensions \ device.extensions = {}

IsDeviceSuitable(device) ==
  LET qfi == FindQueueFamilies(device.queue_families)
      extensions_supported == CheckDeviceExtensionSupport(device)
      swap_chain_adequate ==
        /\ extensions_supported
        /\ QuerySwapChainSupport(device).formats # << >>
        /\ QuerySwapChainSupport(device).present_modes # << >>
  IN  IsComplete(qfi) /\ extensions_supported /\ swap_chain_adequate

\* The loop of PickPhysicalDevice from the device at position i on; a
\* device is named by its position in the enumeration, and
\* physical_device_ starts as VK_NULL_HANDLE (vulkan_engine.h, line 27).
RECURSIVE PickPhysicalDeviceFrom(_, _)
PickPhysicalDeviceFrom(devices, i) ==
  IF i > Len(devices)
    THEN VK_NULL_HANDLE
    ELSE IF IsDeviceSuitable(devices[i])
           THEN i
           ELSE PickPhysicalDeviceFrom(devices, i + 1)

\* The loop of PickPhysicalDevice without the break: the last suitable
\* device is kept.
PickPhysicalDevice_device_NoBreak(devices) ==
  LET suitable == {i \in DOMAIN devices : IsDeviceSuitable(devices[i])}
  IN  IF suitable = {} THEN VK_NULL_HANDLE
      ELSE CHOOSE i \in suitable : \A j \in suitable : j <= i

PickPhysicalDevice_device(devices) == PickPhysicalDeviceFrom(devices, 1)

MemoryPropertyFlags ==
  {"VK_MEMORY_PROPERTY_DEVICE_LOCAL_BIT",
   "VK_MEMORY_PROPERTY_HOST_VISIBLE_BIT",
   "VK_MEMORY_PROPERTY_HOST_COHERENT_BIT"}

\* The properties CreateBuffer is called with: lines 1051-1052, 1094-1095
\* and 1122-1123 (staging and uniform buffers), 1062 and 1105 (vertex and
\* index buffers).
RequestedProperties ==
  { {"VK_MEMORY_PROPERTY_HOST_VISIBLE_BIT",
     "VK_MEMORY_PROPERTY_HOST_COHERENT_BIT"},
    {"VK_MEMORY_PROPERTY_DEVICE_LOCAL_BIT"} }

\* type_filter & (1 << i)
BitSet(type_filter, i) == (type_filter \div (2 ^ i)) % 2 = 1

\* The loop of FindMemoryType from index i on, and the return 0 after it.
RECURSIVE FindMemoryTypeFrom(_, _, _, _)
FindMemoryTypeFrom(memoryTypes, type_filter, properties, i) ==
  IF i >= Len(memoryTypes)
    THEN 0
    ELSE IF /\ BitSet(type_filter, i)
            /\ memoryTypes[i + 1] \cap properties = properties
           THEN i
           ELSE FindMemoryTypeFrom(memoryTypes, type_filter, properties,
                                   i + 1)

FindMemoryType(memoryTypes, type_filter, properties) ==
  FindMemoryTypeFrom(memoryTypes, type_filter, properties, 0)

\* CreateBuffer, lines 989-1001: the memory type index it allocates from.
CreateBuffer(memoryTypes, memoryTypeBits, properties) ==
  [memoryTypeIndex |-> FindMemoryType(memoryTypes, memoryTypeBits,
                                      properties),
   allocated |-> TRUE]

\* The largest width, height or window size of the checks.
MaxExtent == 2

\* uint32_t is kept as an unsigned integer of UintWidth bits: the checks
\* need its largest value (the marker in currentExtent.width) and the wrap
\* of static_cast<uint32_t>, not its size.
UintWidth == 4

\* std::numeric_limits<uint32_t>::max()
UINT32_MAX == 2 ^ UintWidth - 1

\* static_cast<uint32_t>(int)
ToUint32(x) == x % (2 ^ UintWidth)

\* std::clamp(v, lo, hi)
Clamp(v, lo, hi) == IF v < lo THEN lo ELSE IF hi < v THEN hi ELSE v

\* What vkGetPhysicalDeviceSurfaceCapabilitiesKHR reports: the current
\* extent, whose width and height are UINT32_MAX when the surface leaves
\* the size to the swapchain, and the bounds, with min <= max.
SurfaceCapabilities ==
  {c \in [currentExtent : [width : 0..MaxExtent \cup {UINT32_MAX},
                           height : 0..MaxExtent \cup {UINT32_MAX}],
          minImageExtent : [width : 0..MaxExtent, height : 0..MaxExtent],
          maxImageExtent : [width : 0..MaxExtent, height : 0..MaxExtent]] :
     /\ c.minImageExtent.width <= c.maxImageExtent.width
     /\ c.minImageExtent.height <= c.maxImageExtent.height}

\* What SDL_GetWindowSizeInPixels writes into the two ints.
WindowPixels == [width : -1..(MaxExtent + 1), height : -1..(MaxExtent + 1)]

\* ChooseSwapExtent without the two std::clamp calls.
ChooseSwapExtent_NoClamp(capabilities, pixels) ==
  IF capabilities.currentExtent.width # UINT32_MAX
    THEN capabilities.currentExtent
    ELSE [width |-> ToUint32(pixels.width),
          height |-> ToUint32(pixels.height)]

ChooseSwapExtent(capabilities, pixels) ==
  IF capabilities.currentExtent.width # UINT32_MAX
    THEN capabilities.currentExtent
    ELSE LET actual_extent == [width |-> ToUint32(pixels.width),
                               height |-> ToUint32(pixels.height)]
         IN  [width |-> Clamp(actual_extent.width,
                              capabilities.minImageExtent.width,
                              capabilities.maxImageExtent.width),
              height |-> Clamp(actual_extent.height,
                               capabilities.minImageExtent.height,
                               capabilities.maxImageExtent.height)]

\* A call that has not returned yet.
NewCall(fn, args) == [fn |-> fn, args |-> args, done |-> FALSE, ret |-> << >>]

\* The calls the checks start from: CreateLogicalDevice is called with a
\* device whose indices are complete, CreateSwapChain with a suitable
\* device, ChooseSwapSurfaceFormat with a non-empty list, CreateBuffer with
\* at least one memory type and memoryTypeBits naming existing types.
CallInput ==
  \/ \E l \in FamilyLists : call = NewCall("FindQueueFamilies", l)
  \/ \E l \in FamilyLists :
       /\ IsComplete(FindQueueFamilies(l))
       /\ call = NewCall("CreateLogicalDevice", l)
  \/ \E dev \in SwapChainDevices : call = NewCall("CreateSwapChain", dev)
  \/ \E l \in SeqsUpTo(PhysicalDevices, MaxDevices) :
       call = NewCall("PickPhysicalDevice", l)
  \/ \E l \in FormatLists : call = NewCall("ChooseSwapSurfaceFormat", l)
  \/ \E c \in SurfaceCapabilities, w \in WindowPixels :
       call = NewCall("ChooseSwapExtent",
                      [capabilities |-> c, pixels |-> w])
  \/ \E m \in SeqsUpTo(SUBSET MemoryPropertyFlags, MaxMemoryTypes) \ {<< >>},
        p \in RequestedProperties :
       \E b \in 1..(2 ^ Len(m) - 1) :
         call = NewCall("CreateBuffer",
                        [memoryTypes |-> m, memoryTypeBits |-> b,
                         properties |-> p])

CallFrame ==
  UNCHANGED << pc, init_i, destroy_i, rs_ret, running_, current_frame_, live,
               swapVars, syncVars, image_index, envVars, rsLocals,
               resize_pending, df, destroyed_twice, init_failed,
               recorded_commands, imgui_frame, frames_after_quit,
               formatVars >>

Return(fn, value) ==
  /\ pc = "call"
  /\ call.fn = fn
  /\ ~call.done
  /\ call' = [call EXCEPT !.done = TRUE, !.ret = value]
  /\ CallFrame

Call_FindQueueFamilies ==
  Return("FindQueueFamilies", FindQueueFamilies(call.args))

Call_CreateLogicalDevice ==
  Return("CreateLogicalDevice", CreateLogicalDevice_queues(call.args))

Call_CreateSwapChain ==
  Return("CreateSwapChain", CreateSwapChain_presentMode(call.args))

Call_PickPhysicalDevice ==
  Return("PickPhysicalDevice", PickPhysicalDevice_device(call.args))

Call_CreateBuffer ==
  Return("CreateBuffer",
         CreateBuffer(call.args.memoryTypes, call.args.memoryTypeBits,
                      call.args.properties))

Call_ChooseSwapSurfaceFormat ==
  Return("ChooseSwapSurfaceFormat", ChooseSwapSurfaceFormat(call.args))

Call_ChooseSwapExtent ==
  Return("ChooseSwapExtent",
         ChooseSwapExtent(call.args.capabilities, call.args.pixels))

InitCalls ==
  /\ pc = "call"
  /\ CallInput
  /\ init_i = 1
  /\ destroy_i = 1
  /\ rs_ret = "none"
  /\ running_ = FALSE
  /\ current_frame_ = 0
  /\ live = {}
  /\ swap_chain_ = 0
  /\ swap_chain_images_ = 0
  /\ swap_chain_image_views_ = << >>
  /\ swap_chain_framebuffers_ = << >>
  /\ live_swapchains = {}
  /\ live_image_views = {}
  /\ live_framebuffers = {}
  /\ handles = 0
  /\ in_flight_fences_ = [f \in Frames |-> "none"]
  /\ image_available_semaphores_ = [f \in Frames |-> "none"]
  /\ command_buffers_ = [f \in Frames |-> "none"]
  /\ gpu_queue = << >>
  /\ image_index = 0
  /\ events = << >>
  /\ width = 0
  /\ height = 0
  /\ budget = MaxRecreations
  /\ resize_pending = FALSE
  /\ df = DfNone
  /\ destroyed_twice = FALSE
  /\ init_failed = {}
  /\ recorded_commands = [f \in Frames |-> << >>]
  /\ imgui_frame = "closed"
  /\ frames_after_quit = 0
  /\ surface = NoSurface
  /\ swap_chain_image_format_ = "VK_FORMAT_UNDEFINED"
  /\ swap_chain_extent_ = 0
  /\ render_pass_format = "VK_FORMAT_UNDEFINED"
  /\ extent_users = NoExtentUsers

NextCalls ==
  \/ Call_FindQueueFamilies
  \/ Call_CreateLogicalDevice
  \/ Call_CreateSwapChain
  \/ Call_PickPhysicalDevice
  \/ Call_CreateBuffer
  \/ Call_ChooseSwapSurfaceFormat
  \/ Call_ChooseSwapExtent

SpecCalls == InitCalls /\ [][NextCalls]_vars

\* ------------------------------------------------------------------------
\* CreateVertexBuffer, CreateIndexBuffer and CopyBuffer statement by
\* statement, inside an Init whose other statements run as before and may
\* fail.
\* ------------------------------------------------------------------------

StagedSteps == {"CreateVertexBuffer", "CreateIndexBuffer"}

StagingObjects == {"staging_buffer", "staging_buffer_memory"}

\* The entry of the graphics queue that stands for the copy CopyBuffer
\* submits (the entries of DrawFrame are the frame slots 0 and 1).
CopySubmission == -1

StagingFrame ==
  UNCHANGED << destroy_i, helperVars, imgui_frame, frames_after_quit,
               destroyed_twice, init_failed, recorded_commands, rs_ret,
               running_, current_frame_, swapVars, in_flight_fences_,
               image_available_semaphores_, command_buffers_, image_index,
               envVars, rsLocals, resize_pending, df >>

\* CreateBuffer(..., staging_buffer, staging_buffer_memory), lines
\* 1050-1053 and 1093-1096.
Staged_CreateStagingBuffer ==
  /\ pc = "Init"
  /\ init_i <= Len(InitOrder)
  /\ InitOrder[init_i] \in StagedSteps
  /\ live' = live \cup StagingObjects
  /\ pc' = "sb_map"
  /\ UNCHANGED << init_i, gpu_queue >>
  /\ StagingFrame

\* vkMapMemory, memcpy, vkUnmapMemory, lines 1054-1057 and 1097-1100.
Staged_MapMemory ==
  /\ pc = "sb_map"
  /\ pc' = "sb_buffer"
  /\ UNCHANGED << init_i, live, gpu_queue >>
  /\ StagingFrame

\* CreateBuffer of the vertex or index buffer, lines 1059-1063 and
\* 1102-1105, then the call of CopyBuffer.
Staged_CreateBuffer ==
  /\ pc = "sb_buffer"
  /\ live' = live \cup Produces(InitOrder[init_i])
  /\ pc' = "cp_allocate"
  /\ UNCHANGED << init_i, gpu_queue >>
  /\ StagingFrame

\* CopyBuffer, lines 1009-1033: the command buffer is allocated and the
\* copy is recorded.
CopyBuffer_AllocateCommandBuffers ==
  /\ pc = "cp_allocate"
  /\ live' = live \cup {"copy_command_buffer"}
  /\ pc' = "cp_submit"
  /\ UNCHANGED << init_i, gpu_queue >>
  /\ StagingFrame

\* vkQueueSubmit, line 1040: the copy is handed to the graphics queue. (A
\* submission the queue refuses leaves nothing to wait for; the code does
\* not look at the result.)
CopyBuffer_QueueSubmit ==
  /\ pc = "cp_submit"
  /\ gpu_queue' = Append(gpu_queue, CopySubmission)
  /\ pc' = "cp_wait"
  /\ UNCHANGED << init_i, live >>
  /\ StagingFrame

\* CopyBuffer without the vkQueueWaitIdle of line 1041.
CopyBuffer_QueueWaitIdle_NoWait ==
  /\ pc = "cp_wait"
  /\ pc' = "cp_free"
  /\ UNCHANGED << init_i, live, gpu_queue >>
  /\ StagingFrame

\* vkQueueWaitIdle(graphics_queue_), line 1041.
CopyBuffer_QueueWaitIdle ==
  /\ pc = "cp_wait"
  /\ gpu_queue = << >>
  /\ pc' = "cp_free"
  /\ UNCHANGED << init_i, live, gpu_queue >>
  /\ StagingFrame

\* vkFreeCommandBuffers, line 1042, and the return of CopyBuffer.
CopyBuffer_FreeCommandBuffers ==
  /\ pc = "cp_free"
  /\ live' = live \ {"copy_command_buffer"}
  /\ pc' = "sb_destroy"
  /\ UNCHANGED << init_i, gpu_queue >>
  /\ StagingFrame

\* vkDestroyBuffer and vkFreeMemory of the staging buffer, lines 1067-1068
\* and 1109-1110, and the return to Init.
Staged_DestroyStagingBuffer ==
  /\ pc = "sb_destroy"
  /\ live' = live \ StagingObjects
  /\ init_i' = init_i + 1
  /\ pc' = "Init"
  /\ UNCHANGED gpu_queue
  /\ StagingFrame

\* The graphics queue finishes the copy.
GpuCopyComplete ==
  /\ gpu_queue # << >>
  /\ Head(gpu_queue) = CopySubmission
  /\ gpu_queue' = Tail(gpu_queue)
  /\ UNCHANGED << pc, init_i, live >>
  /\ StagingFrame

NextStaging ==
  \/ InitSDL
  \/ InitVulkanInstance
  \/ SetupDebugMessenger
  \/ CreateSurface
  \/ PickPhysicalDevice
  \/ CreateLogicalDevice
  \/ Init_CreateSwapChain
  \/ Init_CreateImageViews
  \/ CreateRenderPass
  \/ CreateDescriptorSetLayout
  \/ CreateGraphicsPipeline
  \/ Init_CreateFramebuffers
  \/ CreateCommandPool
  \/ CreateUniformBuffers
  \/ CreateDescriptorPool
  \/ CreateDescriptorSets
  \/ CreateCommandBuffer
  \/ CreateSyncObjects
  \/ InitImGui
  \/ InitStepFails
  \/ Staged_CreateStagingBuffer
  \/ Staged_MapMemory
  \/ Staged_CreateBuffer
  \/ CopyBuffer_AllocateCommandBuffers
  \/ CopyBuffer_QueueSubmit
  \/ CopyBuffer_QueueWaitIdle
  \/ CopyBuffer_FreeCommandBuffers
  \/ Staged_DestroyStagingBuffer
  \/ GpuCopyComplete

SpecStaging == Init /\ [][NextStaging]_vars

\* CreateDescriptorSets with buffer_info.buffer = uniform_buffers_[0] for
\* every descriptor set.
descriptor_sets__FirstBuffer(i) == 0

\* CreateDescriptorSets, lines 1189-1206: the uniform buffer the
\* descriptor set of slot i refers to after vkUpdateDescriptorSets
\* (dstSet = descriptor_sets_[i], buffer = uniform_buffers_[i]).
descriptor_sets_(i) == i

\* The uniform buffer the draw of a recorded command list reads: the one
\* behind the descriptor set its vkCmdBindDescriptorSets binds.
BoundUniformBuffer(cmds) ==
  LET bind == CHOOSE c \in Range(cmds) : c.cmd = "vkCmdBindDescriptorSets"
  IN  descriptor_sets_(bind.args[3])

\* ------------------------------------------------------------------------
\* Properties
\* ------------------------------------------------------------------------

Pending(f) == \E i \in DOMAIN gpu_queue : gpu_queue[i] = f

RunPcs == {"run_top", "run_poll", "run_resize_idle", "run_newframe",
           "run_idle"}

DrawFramePcs == {"df_wait", "df_acquire", "df_update", "df_reset_fences",
                 "df_reset_cb", "df_record", "df_submit", "df_present",
                 "df_advance"}

RecreatePcs == {"rs_size", "rs_wait", "rs_idle", "rs_cleanup",
                "rs_create_swapchain", "rs_create_views",
                "rs_create_framebuffers"}

\* DrawFrame is not executing: the last call has returned to Run, or the
\* next call has not yet passed its fence wait.
DrawFrameReturned ==
  \/ pc \in RunPcs \cup {"df_wait"}
  \/ pc \in RecreatePcs /\ rs_ret = "run_poll"

\* C1: while DrawFrame has reset command_buffers_[current_frame_] and is
\* re-recording it (up to the submit), no submission of that command
\* buffer made by an earlier DrawFrame is still pending on the GPU.
C1_NoResetWhilePending ==
  pc \in {"df_record", "df_submit"} => ~Pending(current_frame_)

\* Slot 0 is reset for its second use while the submission of slot 1 is
\* still executing.
C1_Witness ==
  /\ pc = "df_record"
  /\ current_frame_ = 0
  /\ gpu_queue = << 1 >>

\* C2: whenever DrawFrame is entered, in_flight_fences_[current_frame_] is
\* signaled or a pending submission will signal it, so the fence wait
\* returns.
C2_FenceWaitReturns ==
  pc = "df_wait" =>
    \/ in_flight_fences_[current_frame_] = "signaled"
    \/ Pending(current_frame_)

\* The CPU records or submits one slot while the submission of the other
\* slot has not completed.
Overlap ==
  /\ pc \in {"df_record", "df_submit"}
  /\ \E f \in Frames : f # current_frame_ /\ Pending(f)

\* C3: the loop of Run is double-buffered: when DrawFrame has returned and
\* its submission is still pending, the main thread can go on to the next
\* iteration, where it records and submits the other slot while that
\* submission executes; and never more than kMaxFramesInFlight submissions
\* are pending.
C3_DoubleBuffered ==
  /\ (pc = "run_idle" /\ gpu_queue # << >>) => ENABLED Program
  /\ Len(gpu_queue) <= kMaxFramesInFlight

\* What Run does instead: whenever DrawFrame records or submits a command
\* buffer no submission is pending, and at most one is pending at any time.
C3_RunNeverOverlaps ==
  /\ ~Overlap
  /\ Len(gpu_queue) <= 1

\* C4: CleanupSwapChain inside RecreateSwapChain runs only while no
\* submitted GPU work is pending, whichever path called RecreateSwapChain.
C4_CleanupOnlyWhenIdle ==
  pc \in {"rs_cleanup", "rs_create_swapchain"} => gpu_queue = << >>

\* The swapchain has just been destroyed on the present path, in the
\* DrawFrame call that submitted a frame.
C4_Witness ==
  /\ pc = "rs_create_swapchain"
  /\ rs_ret = "df_advance"
  /\ df.submitted = "ok"

\* Exactly one swapchain is live, and the live image views and framebuffers
\* are exactly those the vectors hold, one per swapchain image.
SwapChainComplete ==
  /\ live_swapchains = {swap_chain_}
  /\ Len(swap_chain_image_views_) = swap_chain_images_
  /\ Len(swap_chain_framebuffers_) = swap_chain_images_
  /\ live_image_views = Range(swap_chain_image_views_)
  /\ live_framebuffers = Range(swap_chain_framebuffers_)
  /\ Cardinality(live_image_views) = swap_chain_images_
  /\ Cardinality(live_framebuffers) = swap_chain_images_

\* C5: after Init and after every completed RecreateSwapChain exactly one
\* swapchain is live, with one live image view and one live framebuffer
\* per swapchain image, and nothing of an earlier generation is live.
C5_OneSwapChainGeneration ==
  pc \in RunPcs \cup DrawFramePcs \cup {"rs_size", "rs_wait", "rs_idle",
                                        "rs_cleanup"}
    => SwapChainComplete

\* The third swapchain generation is in use: two generations hand out at
\* most 2 * (1 + 2 * MaxImages) handles.
C5_Witness ==
  /\ pc = "df_acquire"
  /\ swap_chain_ > 2 * (1 + 2 * MaxImages)

\* C6: from the moment Run polls a RESIZED event until the swapchain has
\* been recreated, the main thread is inside the handler (the device wait
\* and RecreateSwapChain); no DrawFrame step runs in between.
C6_ResizeRecreatesBeforeDraw ==
  resize_pending =>
    \/ pc = "run_resize_idle"
    \/ pc \in RecreatePcs /\ rs_ret = "run_poll"

\* The recreation answering a RESIZED event is at its last statement.
C6_Witness ==
  /\ pc = "rs_create_framebuffers"
  /\ rs_ret = "run_poll"
  /\ resize_pending

\* C7: a DrawFrame whose acquire returned OUT_OF_DATE has recreated the
\* swapchain and has returned without resetting the fence, recording,
\* submitting or presenting, with current_frame_ unchanged, and the fence
\* of that slot is signaled.
C7_AcquireOutOfDate ==
  (DrawFrameReturned /\ df.acquire = "OUT_OF_DATE") =>
    /\ df.recreated = "after_acquire"
    /\ ~df.reset_fence
    /\ ~df.recorded
    /\ df.submitted = "no"
    /\ ~df.presented
    /\ current_frame_ = df.frame
    /\ in_flight_fences_[current_frame_] = "signaled"

\* The next DrawFrame is about to wait on the fence of the slot whose
\* acquire returned OUT_OF_DATE.
C7_Witness ==
  /\ pc = "df_wait"
  /\ df.acquire = "OUT_OF_DATE"

\* C8: a DrawFrame whose present returned OUT_OF_DATE or SUBOPTIMAL has
\* recreated the swapchain after the present and has advanced
\* current_frame_; a DrawFrame whose acquire returned SUBOPTIMAL went on
\* as for SUCCESS (no recreation at acquire time, the frame recorded and
\* handed to vkQueueSubmit, and presented when the submit was accepted).
C8_PresentOutOfDate ==
  /\ (DrawFrameReturned /\ df.present \in {"OUT_OF_DATE", "SUBOPTIMAL"}) =>
       /\ df.recreated = "after_present"
       /\ current_frame_ = (df.frame + 1) % kMaxFramesInFlight
  /\ (DrawFrameReturned /\ df.acquire = "SUBOPTIMAL") =>
       /\ df.recreated # "after_acquire"
       /\ df.reset_fence
       /\ df.recorded
       /\ df.submitted # "no"
       /\ df.submitted = "ok" => df.presented

\* A DrawFrame has returned whose acquire returned SUBOPTIMAL and whose
\* present returned OUT_OF_DATE.
C8_Witness ==
  /\ pc = "run_idle"
  /\ df.acquire = "SUBOPTIMAL"
  /\ df.present = "OUT_OF_DATE"

\* C9: every statement of Init runs when the objects it consumes have
\* been created, and the first DrawFrame runs when the objects it uses
\* (sync objects and command buffers among them) have been created.
C9_InitOrder ==
  /\ (pc = "Init" /\ init_i <= Len(InitOrder)) =>
       Consumes(InitOrder[init_i]) \subseteq live
  /\ pc = "df_wait" => DrawFrameConsumes \subseteq live

\* Init has run to its end and the first DrawFrame is about to start.
C9_Witness ==
  /\ pc = "df_wait"
  /\ init_i = Len(InitOrder) + 1
  /\ df = DfNone

DeviceChildren ==
  {"imgui_descriptor_pool", "framebuffers", "image_views", "swapchain",
   "uniform_buffers", "uniform_buffers_memory", "vertex_buffer",
   "vertex_buffer_memory", "index_buffer", "index_buffer_memory",
   "descriptor_pool", "descriptor_set_layout", "graphics_pipeline",
   "pipeline_layout", "render_pass", "semaphores", "fences", "command_pool"}

\* C10: in Destroy, once the device is destroyed no device-level object is
\* live; once the instance is destroyed the device, the debug messenger
\* and the surface are not live; once the window is destroyed the surface
\* and the instance are not live.
C10_DestroyOrder ==
  pc \in {"Destroy", "done"} =>
    /\ "device" \notin live =>
         /\ DeviceChildren \cap live = {}
         /\ live_swapchains = {}
         /\ live_image_views = {}
         /\ live_framebuffers = {}
    /\ "instance" \notin live =>
         {"device", "debug_messenger", "surface"} \cap live = {}
    /\ "window" \notin live => {"surface", "instance"} \cap live = {}

\* Destroy has run to its end.
C10_Witness ==
  /\ pc = "done"
  /\ "window" \notin live

\* C11: with every step of Init succeeding, whatever frames and swapchain
\* recreations Run goes through, no object is destroyed that is not live
\* (nothing is destroyed twice), and when Destroy has returned nothing is
\* live: the named objects of Init, the staging buffers, the shader
\* modules and the copy command buffers, and every swapchain, image view
\* and framebuffer handle of every generation have been destroyed.
C11_DestroyedExactlyOnce ==
  /\ ~destroyed_twice
  /\ pc = "done" =>
       /\ live = {}
       /\ live_swapchains = {}
       /\ live_image_views = {}
       /\ live_framebuffers = {}

\* Destroy has returned after a run that submitted a frame and used three
\* swapchain generations (two hand out at most 2 * (1 + 2 * MaxImages)
\* handles).
C11_Witness ==
  /\ pc = "done"
  /\ df.submitted = "ok"
  /\ handles > 2 * (1 + 2 * MaxImages)

\* The objects the failed statements of Init did not create.
NeverCreated == UNION {Produces(step) : step \in init_failed}

\* C12: after a statement of Init has failed, no later statement of Init
\* is run that hands an object of the failed statement to SDL or the GPU
\* API, and DrawFrame is not entered when it would use such an object.
C12_NoUseAfterFailedInit ==
  /\ (pc = "Init" /\ init_i <= Len(InitOrder)) =>
       Consumes(InitOrder[init_i]) \cap NeverCreated = {}
  /\ pc = "df_wait" => DrawFrameConsumes \cap NeverCreated = {}

\* Number of commands of the given name in a recorded command list.
CountCmd(cmds, name) ==
  Cardinality({i \in DOMAIN cmds : cmds[i].cmd = name})

\* C13: every command buffer that has been recorded (it is executable or
\* pending) holds exactly one render pass, one graphics-pipeline bind and
\* one indexed draw, of 6 indices and 1 instance; and every value of
\* indices is smaller than the number of vertices, which is 4.
C13_RecordedCommands ==
  /\ \A f \in Frames :
       command_buffers_[f] \in {"executable", "pending"} =>
         LET cmds == recorded_commands[f] IN
           /\ CountCmd(cmds, "vkCmdBeginRenderPass") = 1
           /\ CountCmd(cmds, "vkCmdEndRenderPass") = 1
           /\ CountCmd(cmds, "vkCmdBindPipeline") = 1
           /\ CountCmd(cmds, "vkCmdDrawIndexed") = 1
           /\ \A i \in DOMAIN cmds :
                cmds[i].cmd = "vkCmdDrawIndexed" =>
                  /\ cmds[i].args[1] = 6
                  /\ cmds[i].args[2] = 1
  /\ Len(vertices) = 4
  /\ \A i \in DOMAIN indices : indices[i] < Len(vertices)

\* Both command buffers have been recorded: slot 1 is about to be
\* submitted while slot 0 is still executing.
C13_Witness ==
  /\ pc = "df_submit"
  /\ current_frame_ = 1
  /\ command_buffers_[1] = "executable"
  /\ command_buffers_[0] = "pending"

\* C14: when DrawFrame has written the uniform buffer of a slot, that slot
\* is the one whose fence this DrawFrame waited for, and no submission
\* that reads the uniform buffer of that slot is pending on the GPU.
C14_UniformWriteAfterFence ==
  pc = "df_reset_fences" =>
    /\ df.ubo = df.frame
    /\ ~Pending(df.ubo)

\* The uniform buffer of slot 0 has been written for its second use while
\* the submission of slot 1 is still executing.
C14_Witness ==
  /\ pc = "df_reset_fences"
  /\ df.ubo = 0
  /\ gpu_queue = << 1 >>

ImageIndexPcs == {"df_update", "df_reset_fences", "df_reset_cb", "df_record",
                  "df_submit", "df_present"}

\* C16: wherever DrawFrame uses image_index, the index was acquired from
\* the swapchain that is current and live, no recreation has happened in
\* this DrawFrame since the acquire, and the index is inside
\* swap_chain_framebuffers_, whose entry is a live framebuffer.
C16_ImageIndexOfCurrentSwapChain ==
  pc \in ImageIndexPcs =>
    /\ df.acquired_from = swap_chain_
    /\ swap_chain_ \in live_swapchains
    /\ df.recreated = "no"
    /\ image_index < Len(swap_chain_framebuffers_)
    /\ swap_chain_framebuffers_[image_index + 1] \in live_framebuffers

\* RecordCommandBuffer is about to use the last image of the third
\* swapchain generation.
C16_Witness ==
  /\ pc = "df_record"
  /\ swap_chain_ > 2 * (1 + 2 * MaxImages)
  /\ image_index = swap_chain_images_ - 1

\* C17: current_frame_ is always one of 0 .. kMaxFramesInFlight - 1.
C17_CurrentFrameInRange ==
  current_frame_ \in 0 .. (kMaxFramesInFlight - 1)

\* The DrawFrame of the last slot has presented and current_frame_ has
\* wrapped around to 0.
C17_Witness ==
  /\ pc = "run_idle"
  /\ df.frame = kMaxFramesInFlight - 1
  /\ df.present = "SUCCESS"
  /\ current_frame_ = 0

\* C18: a DrawFrame call that has returned has advanced current_frame_ by
\* one modulo kMaxFramesInFlight if it submitted the frame and
\* vkQueuePresentKHR returned SUCCESS, SUBOPTIMAL or OUT_OF_DATE, and has
\* left current_frame_ as it was in every other case (acquire OUT_OF_DATE,
\* acquire error, submit failure, any other present result).
C18_AdvanceIffPresented ==
  (DrawFrameReturned /\ df.acquire # "none") =>
    IF /\ df.submitted = "ok"
       /\ df.present \in {"SUCCESS", "SUBOPTIMAL", "OUT_OF_DATE"}
      THEN current_frame_ = (df.frame + 1) % kMaxFramesInFlight
      ELSE current_frame_ = df.frame

\* A DrawFrame of slot 1 has returned early because vkQueuePresentKHR
\* returned an error, after the submit was accepted.
C18_Witness ==
  /\ pc = "run_idle"
  /\ df.frame = 1
  /\ df.submitted = "ok"
  /\ df.present = "ERROR"

\* C19: RecreateSwapChain is blocked in SDL_WaitEvent, waiting for a window
\* event to arrive, only while the size it has read is that of a minimized
\* window (width or height zero).
C19_WaitsOnlyWhileMinimized ==
  (pc = "rs_wait" /\ events = << >>) => (width = 0 \/ height = 0)

\* C20: past its loop, from vkDeviceWaitIdle through CleanupSwapChain and
\* CreateSwapChain to its last statement, RecreateSwapChain holds in width
\* and height the size its last SDL_GetWindowSize call read, and neither
\* is zero.
C20_RecreateOnlyWithNonZeroSize ==
  pc \in RecreatePcs \ {"rs_size", "rs_wait"} => (width # 0 /\ height # 0)

\* The recreation that follows an OUT_OF_DATE acquire is about to call
\* CleanupSwapChain.
C20_Witness ==
  /\ pc = "rs_cleanup"
  /\ rs_ret = "run_idle"
  /\ width # 0
  /\ height # 0

\* C21: whenever a frame can be recorded, after Init and after every
\* RecreateSwapChain, the colour attachment format of the render pass is
\* swap_chain_image_format_ and the framebuffers have swap_chain_extent_;
\* and a recorded frame has its render area, viewport and scissor at
\* swap_chain_extent_.
C21_RenderPassMatchesSwapChain ==
  /\ pc \in {"sc_frame", "sc_recorded"} =>
       /\ render_pass_format = swap_chain_image_format_
       /\ extent_users.framebuffers = swap_chain_extent_
  /\ pc = "sc_recorded" =>
       /\ extent_users.render_area = swap_chain_extent_
       /\ extent_users.viewport = swap_chain_extent_
       /\ extent_users.scissor = swap_chain_extent_

\* The part of C21 about extents alone.
C21_ExtentsFollowSwapChain ==
  /\ pc \in {"sc_frame", "sc_recorded"} =>
       extent_users.framebuffers = swap_chain_extent_
  /\ pc = "sc_recorded" =>
       /\ extent_users.render_area = swap_chain_extent_
       /\ extent_users.viewport = swap_chain_extent_
       /\ extent_users.scissor = swap_chain_extent_


\* C22: CreateGraphicsPipeline destroys every shader module it created
\* before it returns, whichever return it takes: outside the call no
\* shader module exists.
C22_ShaderModulesDestroyed ==
  live \cap {"vert_shader_module", "frag_shader_module"} = {}


\* C23: when Run has returned the device is idle: nothing is left in the
\* queue and no command buffer is pending while Destroy runs, however the
\* loop ended.
C23_IdleWhenRunReturns ==
  pc \in {"Destroy", "done"} =>
    /\ gpu_queue = << >>
    /\ \A f \in Frames : command_buffers_[f] # "pending"

\* Run returns after an iteration whose DrawFrame submitted work.
C23_Witness ==
  /\ pc = "Destroy"
  /\ destroy_i = 1
  /\ ~running_
  /\ df.submitted = "ok"
  /\ df.presented


\* C24: ImGui frames are begun and ended in strict alternation: whenever
\* Run is about to call ImGui::NewFrame the previous ImGui frame has been
\* ended by ImGui::Render, and ImGui::Render is only called on a frame that
\* NewFrame has begun.
C24_ImGuiFramesAlternate ==
  /\ pc = "run_newframe" => imgui_frame = "closed"
  /\ pc = "df_record" => imgui_frame = "open"


\* C27: once the QUIT event has been polled (running_ is false) Run
\* finishes the iteration it is in and returns: the inner loop still polls
\* until the queue is empty, DrawFrame is called at most once more, and at
\* the loop condition Run leaves the loop instead of starting an iteration.
C27_RunReturnsAfterQuit ==
  [][ /\ (pc = "run_top" /\ ~running_) => pc' \in {"run_top", "Destroy"}
      /\ (pc = "run_poll" /\ pc' = "run_newframe") => events = << >>
      /\ (pc = "run_poll" /\ ~running_) =>
           pc' \in {"run_poll", "run_resize_idle", "run_newframe"}
      /\ (pc # "Init" /\ ~running_) => ~running_'
      /\ frames_after_quit' <= 1 ]_vars

\* Run has returned after QUIT was polled and one more DrawFrame ran.
C27_Witness ==
  /\ pc = "Destroy"
  /\ destroy_i = 1
  /\ frames_after_quit = 1
  /\ df.recreated # "no"


\* C25: CreateLogicalDevice requests one queue from each distinct family
\* of {graphics_family, presentation_family}: the family indices of the
\* queue create infos are pairwise distinct and are exactly those
\* families, so both queues fetched with vkGetDeviceQueue belong to a
\* requested family.
C25_QueueCreateInfos ==
  (call.fn = "CreateLogicalDevice" /\ call.done) =>
    LET infos == call.ret.queue_create_infos
        requested == {infos[k].queueFamilyIndex : k \in DOMAIN infos}
        found == FindQueueFamilies(call.args)
    IN  /\ \A j, k \in DOMAIN infos :
             j # k => infos[j].queueFamilyIndex # infos[k].queueFamilyIndex
        /\ requested = {found.graphics_family, found.presentation_family}
        /\ call.ret.graphics_queue_.queueFamilyIndex \in requested
        /\ call.ret.presentation_queue_.queueFamilyIndex \in requested

\* C26: the present mode of the swapchain is MAILBOX whenever the present
\* modes the device reports include MAILBOX and FIFO otherwise, and the
\* modes ChooseSwapPresentMode examines are the modes the device reported.
C26_PresentMode ==
  (call.fn = "CreateSwapChain" /\ call.done) =>
    LET reported == call.args.present_modes
    IN  /\ call.ret.examined = reported
        /\ call.ret.presentMode =
             IF \E i \in DOMAIN reported :
                  reported[i] = "VK_PRESENT_MODE_MAILBOX_KHR"
               THEN "VK_PRESENT_MODE_MAILBOX_KHR"
               ELSE "VK_PRESENT_MODE_FIFO_KHR"

\* C28: FindQueueFamilies returns complete indices exactly when the device
\* has a graphics family and a family that can present; an index that is
\* set names a family of its kind; and the scan stops at the first family
\* at which both kinds have been seen.
C28_FindQueueFamilies ==
  (call.fn = "FindQueueFamilies" /\ call.done) =>
    LET families == call.args
        ret == call.ret
        Graphics == {i \in 0..(Len(families) - 1) : families[i + 1].graphics}
        Present ==
          {i \in 0..(Len(families) - 1) : families[i + 1].presentation}
        BothSeenBy(k) == /\ \E i \in Graphics : i <= k
                         /\ \E i \in Present : i <= k
        last == IF ret.graphics_family >= ret.presentation_family
                  THEN ret.graphics_family ELSE ret.presentation_family
    IN  /\ IsComplete(ret) <=> (Graphics # {} /\ Present # {})
        /\ ret.graphics_family # nullopt => ret.graphics_family \in Graphics
        /\ ret.presentation_family # nullopt =>
             ret.presentation_family \in Present
        /\ IsComplete(ret) =>
             /\ BothSeenBy(last)
             /\ \A k \in 0..(last - 1) : ~BothSeenBy(k)

\* FindQueueFamilies has stopped at a family after the first one, with the
\* two indices on different families.
C28_Witness ==
  /\ call.fn = "FindQueueFamilies"
  /\ call.done
  /\ IsComplete(call.ret)
  /\ call.ret.graphics_family # call.ret.presentation_family

\* C29: PickPhysicalDevice selects the first device of the enumeration
\* that is suitable (complete queue family indices, every required
\* extension, at least one surface format and one present mode), and
\* physical_device_ stays VK_NULL_HANDLE exactly when no device is.
C29_PickPhysicalDevice ==
  (call.fn = "PickPhysicalDevice" /\ call.done) =>
    LET devices == call.args
        Suitable(dev) ==
          /\ \E i \in DOMAIN dev.queue_families :
               dev.queue_families[i].graphics
          /\ \E i \in DOMAIN dev.queue_families :
               dev.queue_families[i].presentation
          /\ kDeviceExtensions \subseteq dev.extensions
          /\ Len(dev.formats) >= 1
          /\ Len(dev.present_modes) >= 1
    IN  /\ call.ret = VK_NULL_HANDLE <=>
             \A i \in DOMAIN devices : ~Suitable(devices[i])
        /\ call.ret # VK_NULL_HANDLE =>
             /\ call.ret \in DOMAIN devices
             /\ Suitable(devices[call.ret])
             /\ \A j \in 1..(call.ret - 1) : ~Suitable(devices[j])

\* Two suitable devices are enumerated and the first one is picked.
C29_Witness ==
  /\ call.fn = "PickPhysicalDevice"
  /\ call.done
  /\ Len(call.args) = 2
  /\ IsDeviceSuitable(call.args[1])
  /\ IsDeviceSuitable(call.args[2])
  /\ call.ret = 1

\* C30: the memory type index CreateBuffer allocates from, which is what
\* FindMemoryType returned, has its bit set in type_filter and has every
\* requested property flag, and no lower index does.
C30_MemoryType ==
  (call.fn = "CreateBuffer" /\ call.done /\ call.ret.allocated) =>
    LET memoryTypes == call.args.memoryTypes
        Satisfies(i) ==
          /\ i < Len(memoryTypes)
          /\ BitSet(call.args.memoryTypeBits, i)
          /\ call.args.properties \subseteq memoryTypes[i + 1]
    IN  /\ Satisfies(call.ret.memoryTypeIndex)
        /\ \A j \in 0..(call.ret.memoryTypeIndex - 1) : ~Satisfies(j)


\* C33: ChooseSwapExtent returns capabilities.currentExtent unchanged when
\* its width is not UINT32_MAX; otherwise it returns the window's pixel
\* size with width and height each clamped into [minImageExtent,
\* maxImageExtent], and so an extent within the bounds of the surface.
C33_ChooseSwapExtent ==
  (call.fn = "ChooseSwapExtent" /\ call.done) =>
    LET capabilities == call.args.capabilities
        pixels == call.args.pixels
        lo == capabilities.minImageExtent
        hi == capabilities.maxImageExtent
        Within(v, a, b) == a <= v /\ v <= b
        Nearest(v, a, b) ==
          LET size == ToUint32(pixels[v])
          IN  \/ Within(size, a, b) /\ call.ret[v] = size
              \/ size < a /\ call.ret[v] = a
              \/ size > b /\ call.ret[v] = b
    IN  IF capabilities.currentExtent.width # UINT32_MAX
          THEN call.ret = capabilities.currentExtent
          ELSE /\ Within(call.ret.width, lo.width, hi.width)
               /\ Within(call.ret.height, lo.height, hi.height)
               /\ Nearest("width", lo.width, hi.width)
               /\ Nearest("height", lo.height, hi.height)

\* The surface leaves the size to the swapchain and the window is larger
\* than the surface allows in one direction and smaller in the other.
C33_Witness ==
  /\ call.fn = "ChooseSwapExtent"
  /\ call.done
  /\ call.args.capabilities.currentExtent.width = UINT32_MAX
  /\ call.args.pixels.width > call.args.capabilities.maxImageExtent.width
  /\ call.args.pixels.height >= 0
  /\ call.args.pixels.height < call.args.capabilities.minImageExtent.height
  /\ call.ret = [width |-> call.args.capabilities.maxImageExtent.width,
                 height |-> call.args.capabilities.minImageExtent.height]

\* C34: given a non-empty list, ChooseSwapSurfaceFormat returns the
\* B8G8R8A8_SRGB / SRGB_NONLINEAR entry when the list contains one and the
\* first entry otherwise, and what it returns is an entry of the list.
C34_ChooseSwapSurfaceFormat ==
  (call.fn = "ChooseSwapSurfaceFormat" /\ call.done) =>
    LET available_formats == call.args
        preferred == [format |-> "VK_FORMAT_B8G8R8A8_SRGB",
                      colorSpace |-> "VK_COLOR_SPACE_SRGB_NONLINEAR_KHR"]
    IN  /\ call.ret \in Range(available_formats)
        /\ call.ret = IF preferred \in Range(available_formats)
                        THEN preferred ELSE available_formats[1]

\* The preferred entry is chosen although it is not the first of the list
\* and the first has the same format with another colour space.
C34_Witness ==
  /\ call.fn = "ChooseSwapSurfaceFormat"
  /\ call.done
  /\ Len(call.args) = 2
  /\ call.args[1].format = "VK_FORMAT_B8G8R8A8_SRGB"
  /\ call.args[1].colorSpace # "VK_COLOR_SPACE_SRGB_NONLINEAR_KHR"
  /\ call.ret = call.args[2]


\* C31: in CreateVertexBuffer and CreateIndexBuffer the staging buffer,
\* its memory and the copy command buffer exist for as long as the copy
\* CopyBuffer submitted has not finished, and the staging buffer does not
\* outlive the function: outside of it none of the three exists.
C31_StagingOutlivesCopy ==
  /\ CopySubmission \in Range(gpu_queue) =>
       StagingObjects \cup {"copy_command_buffer"} \subseteq live
  /\ pc \in {"Init", "run_top"} =>
       live \cap (StagingObjects \cup {"copy_command_buffer"}) = {}

\* The copy of the index buffer has been submitted and has finished, and
\* CreateIndexBuffer is about to destroy its staging buffer.
C31_Witness ==
  /\ pc = "sb_destroy"
  /\ InitOrder[init_i] = "CreateIndexBuffer"
  /\ gpu_queue = << >>
  /\ StagingObjects \subseteq live
  /\ {"vertex_buffer", "index_buffer"} \subseteq live


\* C32: the command buffer recorded for frame slot f binds the descriptor
\* set of slot f, which refers to the uniform buffer of slot f, and that is
\* the buffer UpdateUniformBuffer wrote in the DrawFrame call that recorded
\* it: no recorded frame reads the uniform data of the other slot.
C32_FrameReadsOwnUniformBuffer ==
  /\ \A f \in Frames :
       command_buffers_[f] \in {"executable", "pending"} =>
         BoundUniformBuffer(recorded_commands[f]) = f
  /\ pc = "df_submit" =>
       BoundUniformBuffer(recorded_commands[current_frame_]) = df.ubo

\* DrawFrame has recorded slot 1, after writing the uniform buffer of slot
\* 1, while the submission of slot 0 is still pending.
C32_Witness ==
  /\ pc = "df_submit"
  /\ current_frame_ = 1
  /\ df.ubo = 1
  /\ command_buffers_[0] = "pending"
  /\ command_buffers_[1] = "executable"

====
